---- MODULE Spec2Model ----
(***************************************************************************)
(* A model of the options-trading controller in src/algo/strategy.py.      *)
(*                                                                         *)
(* Units.  Deltas are in hundredths (0.50 is 50).  Prices are in whole     *)
(* rupees.  Times to expiry are in 1/36500 of a year, so that one day is   *)
(* 100, the rollover cut-off 1.5/365.0 is 150 and the default 0.01 is 365. *)
(* Times of day are minutes after midnight ("15:00" is 900): the code      *)
(* compares zero-padded "%H:%M" strings, which order as the minutes do.    *)
(*                                                                         *)
(* Python's None is the empty sequence <<>> and a present value x is <<x>>.*)
(***************************************************************************)
EXTENDS Integers, Sequences, FiniteSets, TLC

VARIABLES
    weekly_position,     \* CalendarPEWeekly.weekly_position: <<>> or <<leg>>
    monthly_position,    \* CalendarPEWeekly.monthly_position: <<>> or <<leg>>
    last_rollover_date,  \* CalendarPEWeekly.last_rollover_date: NoDate or a date
    now,                 \* the clock the polling loop reads: [date, minute]
    book,                \* the executor's net filled quantity per role
    trace,               \* what the last call of update did, in order
    raised,              \* the last call of update ended in an exception
    phase,               \* "idle": between polls; "returned": update has ended
    max_loss_value,      \* config.MAX_LOSS_VALUE as deployed (0 disables)
    positions,           \* WeeklyIronfly.positions: the list of held legs
    is_adjusted,         \* WeeklyIronfly.is_adjusted
    adj_triggered,       \* history: the adjustment trigger has fired for the
                         \* structure now held
    overlay_orders,      \* history: overlay orders sent for the structure now
                         \* held, per tag
    sel_args,            \* the arguments of a call of select_strike_by_delta
    sel_result,          \* what that call returned
    active_strategy,     \* the strategy of config.ACTIVE_STRATEGIES that the
                         \* polling loop runs
    log_file,            \* the rows of the trade log file, below its header
    journal,             \* the TradeJournal object of the running process:
                         \* <<>> while no process runs
    logged,              \* history: the pnl argument of every log_trade call
    threads,             \* per thread that calls the UpstoxWrapper: where it
                         \* stands in the method it runs
    rate_limit_lock,     \* _rate_limit_lock: <<>> or the thread that holds it
    since_stamp,         \* time.time() - _last_call_time, reckoned up to
                         \* _mandatory_delay
    outbound,            \* history: the latest outbound API call and the time
                         \* between it and the one before
    exited,              \* os._exit has ended the process
    stopped_on           \* history: the date of the T-1 exit that update
                         \* performed today, NoDate without one

vars == <<weekly_position, monthly_position, last_rollover_date, now, book,
          trace, raised, phase, max_loss_value, positions, is_adjusted,
          adj_triggered, overlay_orders, sel_args, sel_result, active_strategy,
          log_file, journal, logged,
          threads, rate_limit_lock, since_stamp, outbound, exited, stopped_on>>

\* The variables of the iron-fly strategy and of a lone selector call.
ironflyVars == <<positions, is_adjusted, adj_triggered, overlay_orders>>
selectVars == <<sel_args, sel_result>>
\* The variables of a trade journal on its own.
journalVars == <<log_file, journal, logged>>
\* The variables of the UpstoxWrapper and of the threads that call it.
wrapperVars == <<threads, rate_limit_lock, since_stamp, outbound, exited>>

---------------------------------------------------------------------------
(* Bounds of the model.                                                    *)

\* The dates the clock runs over; date 1 is a Monday.
MaxDay == 2
\* The polling loop is followed on from a state while the executor's book
\* differs from the ledger (the two slots) by at most this many lots in all.
MaxDrift == 0
\* The longest chain handed to a lone call of select_strike_by_delta.
MaxChainLen == 3

---------------------------------------------------------------------------
(* config.py                                                               *)

TRADING_MODE == "PAPER"
STRICT_MONTHLY_EXPIRY_ENTRY == TRUE
ENTRY_TIME_HHMM == 915
ENTRY_WEEKLY_DELTA_TARGET == 50
ENTRY_MONTHLY_DELTA_TARGET == 50
WEEKLY_ADJ_TRIGGER_DELTA == 80
WEEKLY_ADJ_TRIGGER_DELTA_LOW == 10
WEEKLY_ROLL_TARGET_DELTA == 50
MONTHLY_ADJ_TRIGGER_DELTA == 90
MONTHLY_ADJ_TRIGGER_DELTA_LOW == 10
MONTHLY_ROLL_TARGET_DELTA_FALL == 50
MONTHLY_ROLL_TARGET_DELTA_RISE == 35
MAX_LOSS_VALUE == 15000
ROLLOVER_WEEKDAY == 0
AUTO_EXIT_BEFORE_MONTHLY_EXPIRY_3PM == TRUE
ORDER_QUANTITY == 75

---------------------------------------------------------------------------
(* Values                                                                  *)

None == <<>>
Some(x) == <<x>>
NoDate == 0

Abs(x) == IF x < 0 THEN -x ELSE x

Dates == 1..MaxDay
\* datetime.weekday(): Monday is 0.
Weekday(date) == (date - 1) % 7
\* Two times of day, before and after the 15:00 cut-off of the T-1 exit.
Minutes == {570, 900}

\* The spot prices a snapshot may carry; 0 stands for a missing spot price.
Spots == {21000, 21100}
NoSpot == 0

\* What order_callback may hand back: nothing, an error status, or a
\* success with or without the average fill price.
NoResponse == [present |-> FALSE, status |-> "none", avg_price |-> None]
Responses ==
    { NoResponse,
      [present |-> TRUE, status |-> "error", avg_price |-> None],
      [present |-> TRUE, status |-> "success", avg_price |-> None],
      [present |-> TRUE, status |-> "success", avg_price |-> Some(300)] }

\* resp and resp.get('status') == 'success'
IsSuccess(r) == r.present /\ r.status = "success"
\* A faulty variant of the price read: the reported fill is ignored.
AvgPriceIgnoresFill(r, default) == default

\* resp.get('avg_price', default), for a response that is a dict
AvgPrice(r, default) == IF r.avg_price # None THEN r.avg_price[1] ELSE default

---------------------------------------------------------------------------
(* Market snapshot: the chains and the quote map of one polling cycle.     *)

WeeklyKey(k) == [chain |-> "W", strike |-> k]
MonthlyKey(k) == [chain |-> "M", strike |-> k]

Contract(key, tte, ltp, expiry_dt) ==
    [strike |-> key.strike, type |-> "p", time_to_expiry |-> tte, iv |-> 15,
     expiry_dt |-> expiry_dt, instrument_key |-> key, ltp |-> ltp]

\* A chain lists its contracts by rising strike.
WeeklyChain(tte) ==
    << Contract(WeeklyKey(20900), tte, 100, 8),
       Contract(WeeklyKey(21000), tte, 100, 8),
       Contract(WeeklyKey(21100), tte, 100, 8) >>
MonthlyChain(tte) ==
    << Contract(MonthlyKey(20900), tte, 300, 30),
       Contract(MonthlyKey(21000), tte, 300, 30),
       Contract(MonthlyKey(21100), tte, 300, 30) >>

\* market_data['cw_chain']: absent, or the weekly chain one day out.
WeeklyChains == { <<>>, WeeklyChain(100) }
\* market_data['m_chain']: absent, or the monthly chain thirty days out.
MonthlyChains == { <<>>, MonthlyChain(3000) }

\* market_data['quotes'].get(instrument_key): a quote object with its
\* last_price or, for the monthly contract, no entry.
Quotes(role) ==
    IF role = "weekly" THEN {Some(299), Some(300)} ELSE {None, Some(300)}

---------------------------------------------------------------------------
(* greeks.calculate_delta, the Greeks provider: negative for puts,         *)
(* positive for calls.  Its values on the grid of strikes, spots and       *)
(* expiries of the model, by moneyness in strike steps.                    *)

Moneyness(spot, strike) == (strike - spot) \div 100

PutDeltaNear(mny) ==
    CASE mny <= -2 -> 5
      [] mny = -1 -> 10
      [] mny = 0 -> 50
      [] mny = 1 -> 80
      [] OTHER -> 95

PutDeltaFar(mny) ==
    CASE mny <= -2 -> 4
      [] mny = -1 -> 10
      [] mny = 0 -> 50
      [] mny = 1 -> 90
      [] OTHER -> 96

calculate_delta(option_type, spot, strike, tte, iv) ==
    LET put == IF tte < 1000 THEN PutDeltaNear(Moneyness(spot, strike))
                             ELSE PutDeltaFar(Moneyness(spot, strike))
    IN  IF option_type = "c" THEN 100 - put ELSE -put

---------------------------------------------------------------------------
(* CalendarPEWeekly.select_strike_by_delta                                 *)

\* A faulty variant of the scan: a contract as close as the best so far
\* replaces it, so the last of several equally close contracts wins.
RECURSIVE SelectScanLastWins(_, _, _, _, _, _)
SelectScanLastWins(spot, chain, target_delta, option_type, i, best) ==
    IF i > Len(chain) THEN best
    ELSE
        LET opt == chain[i]
            abs_d == Abs(calculate_delta(option_type, spot, opt.strike,
                                         opt.time_to_expiry, opt.iv))
            diff == Abs(abs_d - target_delta)
            better == best = None \/ diff <= best[1].diff
        IN  IF opt.type # option_type
            THEN SelectScanLastWins(spot, chain, target_delta, option_type, i + 1, best)
            ELSE SelectScanLastWins(spot, chain, target_delta, option_type, i + 1,
                     IF better
                     THEN Some([opt |-> opt, calculated_delta |-> abs_d, diff |-> diff])
                     ELSE best)

RECURSIVE SelectScan(_, _, _, _, _, _)
SelectScan(spot, chain, target_delta, option_type, i, best) ==
    IF i > Len(chain) THEN best
    ELSE
        LET opt == chain[i]
            abs_d == Abs(calculate_delta(option_type, spot, opt.strike,
                                         opt.time_to_expiry, opt.iv))
            diff == Abs(abs_d - target_delta)
            better == best = None \/ diff < best[1].diff
        IN  IF opt.type # option_type
            THEN SelectScan(spot, chain, target_delta, option_type, i + 1, best)
            ELSE SelectScan(spot, chain, target_delta, option_type, i + 1,
                     IF better
                     THEN Some([opt |-> opt, calculated_delta |-> abs_d, diff |-> diff])
                     ELSE best)

\* The chosen contract with its calculated_delta, or None.
select_strike_by_delta(spot, chain, target_delta, option_type) ==
    LET best == SelectScan(spot, chain, target_delta, option_type, 1, None)
    IN  IF best = None THEN None
        ELSE Some([contract |-> best[1].opt,
                   calculated_delta |-> best[1].calculated_delta])

---------------------------------------------------------------------------
(* The strategy object while one call of update runs: the fields of        *)
(* CalendarPEWeekly, the executor's book, the record of what the call has  *)
(* done so far, whether it has raised, the value the method that just      *)
(* ended returned, and the journal's running closed P&L counted from its   *)
(* value when the call began.  Every method below maps such a record to    *)
(* the set of records it can end in, one for every answer the              *)
(* collaborators can give.                                                 *)

Machine(w, m, lrd, b, maxloss) ==
    [weekly_position |-> w, monthly_position |-> m, last_rollover_date |-> lrd,
     book |-> b, max_loss_value |-> maxloss, trace |-> <<>>, raised |-> FALSE,
     ret |-> FALSE, closed_pnl |-> 0]

Emit(m, e) == [m EXCEPT !.trace = Append(@, e)]

\* A statement after an exception does not run.
Bind(S, F(_)) == UNION { IF s.raised THEN {s} ELSE F(s) : s \in S }

\* An uncaught exception leaves the fields as they are.
Raise(m, what) == [Emit(m, [ev |-> "raise", what |-> what]) EXCEPT !.raised = TRUE]

\* return value, at the end of a method whose result the caller acts on.
Return(m, fn, value) ==
    [Emit(m, [ev |-> "return", fn |-> fn, value |-> value]) EXCEPT !.ret = value]

\* market_data.get(key, default): the flag as this snapshot carries it.
ReadFlag(m, key, F(_, _)) ==
    UNION { F(Emit(m, [ev |-> "md", key |-> key, val |-> b]), b) : b \in BOOLEAN }

\* The same where the code's path depends on the flag (decides); elsewhere
\* both values of the flag lead to the same end and one stands for both.
ReadFlagIf(decides, m, key, F(_, _)) ==
    IF decides THEN ReadFlag(m, key, F) ELSE F(m, FALSE)

\* The executor's net filled quantity of a role: a SELL that fills lowers
\* it, a BUY that fills raises it; an order that does not fill leaves it.
Fill(b, key, qty, side, r) ==
    IF ~IsSuccess(r) THEN b
    ELSE [b EXCEPT ![key.chain] = IF side = "BUY" THEN @ + qty ELSE @ - qty]

\* order_callback(instrument_key, qty, side, tag, ...) answering r.
order_callback(m, key, qty, side, tag, r) ==
    [Emit(m, [ev |-> "order", instrument_key |-> key, qty |-> qty,
              side |-> side, tag |-> tag, filled |-> IsSuccess(r),
              avg_price |-> IF IsSuccess(r) THEN r.avg_price ELSE None])
     EXCEPT !.book = Fill(@, key, qty, side, r)]

\* self.journal.log_trade(...): one row appended to the trade log, and
\* closed_pnl raised by the row's pnl when it has one.
log_trade(m, key, side, qty, price, tag, pnl) ==
    LET closed == IF pnl # None THEN m.closed_pnl + pnl[1] ELSE m.closed_pnl
    IN  [Emit(m, [ev |-> "log_trade", instrument_key |-> key, side |-> side,
                  qty |-> qty, price |-> price, tag |-> tag, pnl |-> pnl,
                  closed_pnl |-> closed])
         EXCEPT !.closed_pnl = closed]

\* self.weekly_position = v
SetWeekly(m, v) ==
    [Emit(m, [ev |-> "assign", slot |-> "weekly", was_held |-> m.weekly_position # None,
              held |-> v # None, value |-> v])
     EXCEPT !.weekly_position = v]

\* self.monthly_position = v
SetMonthly(m, v) ==
    [Emit(m, [ev |-> "assign", slot |-> "monthly", was_held |-> m.monthly_position # None,
              held |-> v # None, value |-> v])
     EXCEPT !.monthly_position = v]

\* CalendarPEWeekly.save_state: the record handed to the state store.
save_state(m) ==
    Emit(m, [ev |-> "save_state", weekly |-> m.weekly_position,
             monthly |-> m.monthly_position,
             last_rollover_date |-> m.last_rollover_date])

\* A faulty variant of the leg dict: built without its entry_spot.
NewLegWithoutEntrySpot(role, sel, spot, entry_price) ==
    [leg |-> role,
     strike |-> sel.contract.strike,
     expiry |-> sel.contract.time_to_expiry,
     iv |-> sel.contract.iv,
     delta |-> sel.calculated_delta,
     instrument_key |-> sel.contract.instrument_key,
     entry_price |-> entry_price,
     type |-> sel.contract.type,
     expiry_dt |-> sel.contract.expiry_dt]

\* The dict stored in a slot when an opening order has filled.
NewLeg(role, sel, spot, entry_price) ==
    [leg |-> role,
     strike |-> sel.contract.strike,
     expiry |-> sel.contract.time_to_expiry,
     iv |-> sel.contract.iv,
     delta |-> sel.calculated_delta,
     entry_spot |-> spot,
     instrument_key |-> sel.contract.instrument_key,
     entry_price |-> entry_price,
     type |-> sel.contract.type,
     expiry_dt |-> sel.contract.expiry_dt]

\* select_strike_by_delta as a method call, noted in the record of the call.
Select(m, what, spot, chain, target_delta) ==
    LET sel == select_strike_by_delta(spot, chain, target_delta, "p")
    IN  [m |-> Emit(m, [ev |-> "select", what |-> what, target_delta |-> target_delta,
                       found |-> sel # None]),
         sel |-> sel]

---------------------------------------------------------------------------
(* CalendarPEWeekly.enter_strategy                                         *)

\* The monthly BUY failed after the weekly SELL filled: square off the weekly.
\* A faulty variant of the square-off: the close is logged but the weekly
\* slot is left as it is.
EmergencyExitKeepsSlot(m, wsel, resp_exit) ==
    IF ~resp_exit.present
    THEN {Raise(m, "AttributeError")}
    ELSE LET exit_price == AvgPrice(resp_exit, 0)
             pnl == (m.weekly_position[1].entry_price - exit_price) * ORDER_QUANTITY
         IN  {log_trade(m, wsel.contract.instrument_key, "BUY", ORDER_QUANTITY,
                        exit_price, "EMERGENCY_EXIT", Some(pnl))}

EmergencyExit(m, wsel, resp_exit) ==
    IF ~resp_exit.present
    THEN \* resp_exit.get on None
         {Raise(m, "AttributeError")}
    ELSE LET exit_price == AvgPrice(resp_exit, 0)
             pnl == (m.weekly_position[1].entry_price - exit_price) * ORDER_QUANTITY
         IN  {SetWeekly(log_trade(m, wsel.contract.instrument_key, "BUY", ORDER_QUANTITY,
                                  exit_price, "EMERGENCY_EXIT", Some(pnl)),
                        None)}

EnterMonthly(m, spot, wsel, msel, resp_m) ==
    IF IsSuccess(resp_m)
    THEN LET entry_price_m == AvgPrice(resp_m, msel.contract.ltp)
         IN  {log_trade(SetMonthly(m, Some(NewLeg("monthly_buy", msel, spot, entry_price_m))),
                        msel.contract.instrument_key, "BUY", ORDER_QUANTITY,
                        entry_price_m, "MONTHLY_ENTRY", None)}
    ELSE UNION { EmergencyExit(order_callback(m, wsel.contract.instrument_key, ORDER_QUANTITY,
                                              "BUY", "EMERGENCY_EXIT", r), wsel, r)
                 : r \in Responses }

\* A faulty variant of the weekly step of the entry: the monthly BUY is sent
\* although the weekly SELL has failed.
EnterWeeklyThenMonthlyAnyway(m, spot, wsel, msel, resp_w) ==
    IF IsSuccess(resp_w)
    THEN LET entry_price == AvgPrice(resp_w, wsel.contract.ltp)
             m1 == log_trade(SetWeekly(m, Some(NewLeg("weekly_sell", wsel, spot, entry_price))),
                             wsel.contract.instrument_key, "SELL", ORDER_QUANTITY,
                             entry_price, "WEEKLY_ENTRY", None)
         IN  UNION { EnterMonthly(order_callback(m1, msel.contract.instrument_key, ORDER_QUANTITY,
                                                 "BUY", "MONTHLY_ENTRY", r), spot, wsel, msel, r)
                     : r \in Responses }
    ELSE { order_callback(m, msel.contract.instrument_key, ORDER_QUANTITY,
                          "BUY", "MONTHLY_ENTRY", r)
           : r \in Responses }

EnterWeekly(m, spot, wsel, msel, resp_w) ==
    IF IsSuccess(resp_w)
    THEN LET entry_price == AvgPrice(resp_w, wsel.contract.ltp)
             m1 == log_trade(SetWeekly(m, Some(NewLeg("weekly_sell", wsel, spot, entry_price))),
                             wsel.contract.instrument_key, "SELL", ORDER_QUANTITY,
                             entry_price, "WEEKLY_ENTRY", None)
         IN  UNION { EnterMonthly(order_callback(m1, msel.contract.instrument_key, ORDER_QUANTITY,
                                                 "BUY", "MONTHLY_ENTRY", r), spot, wsel, msel, r)
                     : r \in Responses }
    ELSE {m}

\* A faulty variant of the entry: the monthly selection is looked at only
\* after the weekly order has been sent.
enter_strategy_late_check(m, spot, weekly_chain, monthly_chain) ==
    LET m0 == SetMonthly(SetWeekly(Emit(m, [ev |-> "call", fn |-> "enter_strategy"]), None), None)
        w == Select(m0, "weekly", spot, weekly_chain, ENTRY_WEEKLY_DELTA_TARGET)
        mo == Select(w.m, "monthly", spot, monthly_chain, ENTRY_MONTHLY_DELTA_TARGET)
    IN  IF w.sel = None
        THEN {mo.m}
        ELSE UNION { IF mo.sel = None
                     THEN {order_callback(mo.m, w.sel[1].contract.instrument_key,
                                          ORDER_QUANTITY, "SELL", "WEEKLY_ENTRY", r)}
                     ELSE EnterWeekly(order_callback(mo.m, w.sel[1].contract.instrument_key,
                                                     ORDER_QUANTITY, "SELL", "WEEKLY_ENTRY", r),
                                      spot, w.sel[1], mo.sel[1], r)
                     : r \in Responses }

enter_strategy(m, spot, weekly_chain, monthly_chain) ==
    LET m0 == SetMonthly(SetWeekly(Emit(m, [ev |-> "call", fn |-> "enter_strategy"]), None), None)
        w == Select(m0, "weekly", spot, weekly_chain, ENTRY_WEEKLY_DELTA_TARGET)
        mo == Select(w.m, "monthly", spot, monthly_chain, ENTRY_MONTHLY_DELTA_TARGET)
    IN  IF w.sel = None \/ mo.sel = None
        THEN {mo.m}
        ELSE UNION { EnterWeekly(order_callback(mo.m, w.sel[1].contract.instrument_key,
                                                ORDER_QUANTITY, "SELL", "WEEKLY_ENTRY", r),
                                 spot, w.sel[1], mo.sel[1], r)
                     : r \in Responses }

---------------------------------------------------------------------------
(* CalendarPEWeekly.update_deltas                                          *)

\* A faulty variant of the refresh: the time to expiry is refreshed and the
\* delta is left as it was stored.
update_deltas_keeps_delta(m, spot, current_time_to_expiry_weekly, current_time_to_expiry_monthly) ==
    LET w == m.weekly_position
        mo == m.monthly_position
        w1 == IF w = None THEN None
              ELSE Some([w[1] EXCEPT !.expiry = current_time_to_expiry_weekly])
        mo1 == IF mo = None THEN None
               ELSE Some([mo[1] EXCEPT !.expiry = current_time_to_expiry_monthly])
    IN  [Emit(m, [ev |-> "update_deltas", spot |-> spot])
         EXCEPT !.weekly_position = w1, !.monthly_position = mo1]

update_deltas(m, spot, current_time_to_expiry_weekly, current_time_to_expiry_monthly) ==
    LET w == m.weekly_position
        mo == m.monthly_position
        w1 == IF w = None THEN None
              ELSE Some([w[1] EXCEPT
                     !.delta = Abs(calculate_delta(w[1].type, spot, w[1].strike,
                                                   current_time_to_expiry_weekly, 15)),
                     !.expiry = current_time_to_expiry_weekly])
        mo1 == IF mo = None THEN None
               ELSE Some([mo[1] EXCEPT
                      !.delta = Abs(calculate_delta(mo[1].type, spot, mo[1].strike,
                                                    current_time_to_expiry_monthly, 15)),
                      !.expiry = current_time_to_expiry_monthly])
    IN  [Emit(m, [ev |-> "update_deltas", spot |-> spot])
         EXCEPT !.weekly_position = w1, !.monthly_position = mo1]

---------------------------------------------------------------------------
(* CalendarPEWeekly.adjust_weekly_leg                                      *)

WeeklyRollEntry(m, spot, new_leg, resp_entry) ==
    IF IsSuccess(resp_entry)
    THEN LET entry_price == AvgPrice(resp_entry, new_leg.contract.ltp)
         IN  log_trade(SetWeekly(m, Some(NewLeg("weekly_sell", new_leg, spot, entry_price))),
                       new_leg.contract.instrument_key, "SELL", ORDER_QUANTITY,
                       entry_price, "WEEKLY_ROLL_ENTRY", None)
    ELSE m

\* A faulty variant of step 3 of the weekly roll: a replacement order that
\* fails is sent once more.
WeeklyRollEnterRetries(m, spot, new_leg) ==
    LET m1 == SetWeekly(m, None)
    IN  UNION { LET m2 == order_callback(m1, new_leg.contract.instrument_key, ORDER_QUANTITY,
                                         "SELL", "WEEKLY_ROLL_ENTRY", r)
                IN  IF IsSuccess(r)
                    THEN {WeeklyRollEntry(m2, spot, new_leg, r)}
                    ELSE { WeeklyRollEntry(order_callback(m2, new_leg.contract.instrument_key,
                                                          ORDER_QUANTITY, "SELL",
                                                          "WEEKLY_ROLL_ENTRY", r2),
                                           spot, new_leg, r2)
                           : r2 \in Responses }
                : r \in Responses }

\* Steps 2 (after the exit order, if any) and 3 of adjust_weekly_leg.
WeeklyRollEnter(m, spot, new_leg) ==
    LET m1 == SetWeekly(m, None)
    IN  { WeeklyRollEntry(order_callback(m1, new_leg.contract.instrument_key, ORDER_QUANTITY,
                                         "SELL", "WEEKLY_ROLL_ENTRY", r), spot, new_leg, r)
          : r \in Responses }

\* A faulty variant of the weekly roll: the replacement is sold whether or
\* not the exit order has filled.
WeeklyRollExitUnchecked(m, spot, new_leg, resp_exit) ==
    IF IsSuccess(resp_exit)
    THEN LET old == m.weekly_position[1]
             exit_price == AvgPrice(resp_exit, 0)
             pnl == (old.entry_price - exit_price) * ORDER_QUANTITY
         IN  WeeklyRollEnter(log_trade(m, old.instrument_key, "BUY", ORDER_QUANTITY,
                                       exit_price, "WEEKLY_EXIT_ADJ", Some(pnl)),
                             spot, new_leg)
    ELSE WeeklyRollEnter(m, spot, new_leg)

WeeklyRollExit(m, spot, new_leg, resp_exit) ==
    IF IsSuccess(resp_exit)
    THEN LET old == m.weekly_position[1]
             exit_price == AvgPrice(resp_exit, 0)
             pnl == (old.entry_price - exit_price) * ORDER_QUANTITY
         IN  WeeklyRollEnter(log_trade(m, old.instrument_key, "BUY", ORDER_QUANTITY,
                                       exit_price, "WEEKLY_EXIT_ADJ", Some(pnl)),
                             spot, new_leg)
    ELSE {m}

\* A faulty variant of the weekly roll: the held leg's exit order is sent
\* before the selection is looked at.
adjust_weekly_leg_exit_first(m, spot, chain) ==
    LET m0 == Emit(m, [ev |-> "call", fn |-> "adjust_weekly_leg", weekly |-> m.weekly_position])
        s == Select(m0, "weekly", spot, chain, WEEKLY_ROLL_TARGET_DELTA)
    IN  IF s.m.weekly_position # None
        THEN UNION { IF s.sel = None
                     THEN {order_callback(s.m, s.m.weekly_position[1].instrument_key,
                                          ORDER_QUANTITY, "BUY", "WEEKLY_EXIT_ADJ", r)}
                     ELSE WeeklyRollExit(order_callback(s.m, s.m.weekly_position[1].instrument_key,
                                                        ORDER_QUANTITY, "BUY", "WEEKLY_EXIT_ADJ", r),
                                         spot, s.sel[1], r)
                     : r \in Responses }
        ELSE IF s.sel = None THEN {s.m}
        ELSE WeeklyRollEnter(s.m, spot, s.sel[1])

adjust_weekly_leg(m, spot, chain) ==
    LET m0 == Emit(m, [ev |-> "call", fn |-> "adjust_weekly_leg", weekly |-> m.weekly_position])
        s == Select(m0, "weekly", spot, chain, WEEKLY_ROLL_TARGET_DELTA)
    IN  IF s.sel = None THEN {s.m}
        ELSE IF s.m.weekly_position # None
        THEN UNION { WeeklyRollExit(order_callback(s.m, s.m.weekly_position[1].instrument_key,
                                                   ORDER_QUANTITY, "BUY", "WEEKLY_EXIT_ADJ", r),
                                    spot, s.sel[1], r)
                     : r \in Responses }
        ELSE WeeklyRollEnter(s.m, spot, s.sel[1])

---------------------------------------------------------------------------
(* CalendarPEWeekly.adjust_monthly_leg                                     *)

MonthlyRollEntry(m, spot, new_leg, resp_entry) ==
    IF IsSuccess(resp_entry)
    THEN LET entry_price == AvgPrice(resp_entry, new_leg.contract.ltp)
         IN  log_trade(SetMonthly(m, Some(NewLeg("monthly_buy", new_leg, spot, entry_price))),
                       new_leg.contract.instrument_key, "BUY", ORDER_QUANTITY,
                       entry_price, "MONTHLY_ROLL_ENTRY", None)
    ELSE m

MonthlyRollEnter(m, spot, new_leg) ==
    LET m1 == SetMonthly(m, None)
    IN  { MonthlyRollEntry(order_callback(m1, new_leg.contract.instrument_key, ORDER_QUANTITY,
                                          "BUY", "MONTHLY_ROLL_ENTRY", r), spot, new_leg, r)
          : r \in Responses }

\* A faulty variant of the monthly roll's exit: the realized pnl of the long
\* leg is computed with the short side's sign.
MonthlyRollExitShortSign(m, spot, new_leg, resp_exit) ==
    IF IsSuccess(resp_exit)
    THEN LET old == m.monthly_position[1]
             exit_price == AvgPrice(resp_exit, 0)
             pnl == (old.entry_price - exit_price) * ORDER_QUANTITY
         IN  MonthlyRollEnter(log_trade(m, old.instrument_key, "SELL", ORDER_QUANTITY,
                                        exit_price, "MONTHLY_EXIT_ADJ", Some(pnl)),
                              spot, new_leg)
    ELSE {m}

MonthlyRollExit(m, spot, new_leg, resp_exit) ==
    IF IsSuccess(resp_exit)
    THEN LET old == m.monthly_position[1]
             exit_price == AvgPrice(resp_exit, 0)
             pnl == (exit_price - old.entry_price) * ORDER_QUANTITY
         IN  MonthlyRollEnter(log_trade(m, old.instrument_key, "SELL", ORDER_QUANTITY,
                                        exit_price, "MONTHLY_EXIT_ADJ", Some(pnl)),
                              spot, new_leg)
    ELSE {m}

adjust_monthly_leg(m, spot, chain, target_delta) ==
    LET m0 == Emit(m, [ev |-> "call", fn |-> "adjust_monthly_leg", monthly |-> m.monthly_position,
                       target_delta |-> target_delta])
        s == Select(m0, "monthly", spot, chain, target_delta)
    IN  IF s.sel = None THEN {s.m}
        ELSE IF s.m.monthly_position # None
        THEN UNION { MonthlyRollExit(order_callback(s.m, s.m.monthly_position[1].instrument_key,
                                                    ORDER_QUANTITY, "SELL", "MONTHLY_EXIT_ADJ", r),
                                     spot, s.sel[1], r)
                     : r \in Responses }
        ELSE MonthlyRollEnter(s.m, spot, s.sel[1])

---------------------------------------------------------------------------
(* CalendarPEWeekly.check_adjustments                                      *)

\* A faulty variant of the monthly half: the two roll targets are swapped.
CheckMonthlyAdjustmentSwapped(m, spot, monthly_chain, made) ==
    LET delta == m.monthly_position[1].delta
    IN  IF delta >= MONTHLY_ADJ_TRIGGER_DELTA
        THEN { Return(x, "check_adjustments", TRUE)
               : x \in adjust_monthly_leg(m, spot, monthly_chain, MONTHLY_ROLL_TARGET_DELTA_RISE) }
        ELSE IF delta <= MONTHLY_ADJ_TRIGGER_DELTA_LOW
        THEN { Return(x, "check_adjustments", TRUE)
               : x \in adjust_monthly_leg(m, spot, monthly_chain, MONTHLY_ROLL_TARGET_DELTA_FALL) }
        ELSE { Return(m, "check_adjustments", made) }

\* The monthly half; made is what the weekly half has set adjustment_made to.
CheckMonthlyAdjustment(m, spot, monthly_chain, made) ==
    LET delta == m.monthly_position[1].delta
    IN  IF delta >= MONTHLY_ADJ_TRIGGER_DELTA
        THEN { Return(x, "check_adjustments", TRUE)
               : x \in adjust_monthly_leg(m, spot, monthly_chain, MONTHLY_ROLL_TARGET_DELTA_FALL) }
        ELSE IF delta <= MONTHLY_ADJ_TRIGGER_DELTA_LOW
        THEN { Return(x, "check_adjustments", TRUE)
               : x \in adjust_monthly_leg(m, spot, monthly_chain, MONTHLY_ROLL_TARGET_DELTA_RISE) }
        ELSE { Return(m, "check_adjustments", made) }

\* A faulty variant of the weekly half: both triggers exclude their
\* threshold.
check_adjustments_exclusive(m, spot, weekly_chain, monthly_chain) ==
    LET m0 == Emit(m, [ev |-> "call", fn |-> "check_adjustments",
                       weekly |-> m.weekly_position, monthly |-> m.monthly_position])
    IN  IF m0.weekly_position = None \/ m0.monthly_position = None
        THEN { Return(m0, "check_adjustments", FALSE) }
        ELSE LET delta == m0.weekly_position[1].delta
             IN  IF delta > WEEKLY_ADJ_TRIGGER_DELTA
                 THEN Bind(adjust_weekly_leg(m0, spot, weekly_chain),
                           LAMBDA x : CheckMonthlyAdjustment(x, spot, monthly_chain, TRUE))
                 ELSE IF delta < WEEKLY_ADJ_TRIGGER_DELTA_LOW
                 THEN Bind(adjust_weekly_leg(m0, spot, weekly_chain),
                           LAMBDA x : CheckMonthlyAdjustment(x, spot, monthly_chain, TRUE))
                 ELSE CheckMonthlyAdjustment(m0, spot, monthly_chain, FALSE)

check_adjustments(m, spot, weekly_chain, monthly_chain) ==
    LET m0 == Emit(m, [ev |-> "call", fn |-> "check_adjustments",
                       weekly |-> m.weekly_position, monthly |-> m.monthly_position])
    IN  IF m0.weekly_position = None \/ m0.monthly_position = None
        THEN { Return(m0, "check_adjustments", FALSE) }
        ELSE LET delta == m0.weekly_position[1].delta
             IN  IF delta >= WEEKLY_ADJ_TRIGGER_DELTA
                 THEN Bind(adjust_weekly_leg(m0, spot, weekly_chain),
                           LAMBDA x : CheckMonthlyAdjustment(x, spot, monthly_chain, TRUE))
                 ELSE IF delta <= WEEKLY_ADJ_TRIGGER_DELTA_LOW
                 THEN Bind(adjust_weekly_leg(m0, spot, weekly_chain),
                           LAMBDA x : CheckMonthlyAdjustment(x, spot, monthly_chain, TRUE))
                 ELSE CheckMonthlyAdjustment(m0, spot, monthly_chain, FALSE)

---------------------------------------------------------------------------
(* CalendarPEWeekly.exit_all_positions                                     *)

\* f'EXIT_{reason}'
ExitTag(reason) ==
    CASE reason = "MAX_LOSS" -> "EXIT_MAX_LOSS"
      [] reason = "PRE_MONTHLY_EXPIRY_T1" -> "EXIT_PRE_MONTHLY_EXPIRY_T1"
      [] OTHER -> "EXIT_MANUAL"

ExitWeekly(m, reason, resp) ==
    IF IsSuccess(resp)
    THEN LET old == m.weekly_position[1]
             exit_price == AvgPrice(resp, 0)
             pnl == (old.entry_price - exit_price) * ORDER_QUANTITY
         IN  log_trade(m, old.instrument_key, "BUY", ORDER_QUANTITY, exit_price,
                       ExitTag(reason), Some(pnl))
    ELSE m

ExitMonthly(m, reason, resp) ==
    IF IsSuccess(resp)
    THEN LET old == m.monthly_position[1]
             exit_price == AvgPrice(resp, 0)
             pnl == (exit_price - old.entry_price) * ORDER_QUANTITY
         IN  log_trade(m, old.instrument_key, "SELL", ORDER_QUANTITY, exit_price,
                       ExitTag(reason), Some(pnl))
    ELSE m

exit_all_positions(m, reason) ==
    LET m0 == Emit(m, [ev |-> "call", fn |-> "exit_all_positions", reason |-> reason])
        afterWeekly ==
            IF m0.weekly_position # None
            THEN { ExitWeekly(order_callback(m0, m0.weekly_position[1].instrument_key,
                                             ORDER_QUANTITY, "BUY", ExitTag(reason), r),
                              reason, r)
                   : r \in Responses }
            ELSE {m0}
        ThenMonthly(x) ==
            IF x.monthly_position # None
            THEN { ExitMonthly(order_callback(x, x.monthly_position[1].instrument_key,
                                              ORDER_QUANTITY, "SELL", ExitTag(reason), r),
                               reason, r)
                   : r \in Responses }
            ELSE {x}
    IN  { SetMonthly(SetWeekly(y, None), None) : y \in Bind(afterWeekly, ThenMonthly) }

---------------------------------------------------------------------------
(* CalendarPEWeekly.check_portfolio_risk                                   *)

\* A faulty variant of the threshold test: the boundary itself is excluded.
MaxLossHitStrict(total_pnl, max_loss) == total_pnl < -Abs(max_loss)

\* total_pnl <= -abs(config.MAX_LOSS_VALUE)
MaxLossHit(total_pnl, max_loss) == total_pnl <= -Abs(max_loss)

\* A faulty variant of the risk check: the threshold is tested even when the
\* configured maximum loss is zero or negative.
check_portfolio_risk_never_disabled(m, weekly_ltp, monthly_ltp) ==
    LET m0 == Emit(m, [ev |-> "call", fn |-> "check_portfolio_risk",
                       weekly_ltp |-> weekly_ltp, monthly_ltp |-> monthly_ltp,
                       weekly |-> m.weekly_position, monthly |-> m.monthly_position])
    IN  IF m0.weekly_position = None \/ m0.monthly_position = None
        THEN { Return(m0, "check_portfolio_risk", FALSE) }
        ELSE LET weekly_pnl == (m0.weekly_position[1].entry_price - weekly_ltp) * ORDER_QUANTITY
                 monthly_pnl == (monthly_ltp - m0.monthly_position[1].entry_price) * ORDER_QUANTITY
                 total_pnl == weekly_pnl + monthly_pnl
             IN  IF MaxLossHit(total_pnl, m0.max_loss_value)
                 THEN { Return(x, "check_portfolio_risk", TRUE)
                        : x \in exit_all_positions(m0, "MAX_LOSS") }
                 ELSE { Return(m0, "check_portfolio_risk", FALSE) }

check_portfolio_risk(m, weekly_ltp, monthly_ltp) ==
    LET m0 == Emit(m, [ev |-> "call", fn |-> "check_portfolio_risk",
                       weekly_ltp |-> weekly_ltp, monthly_ltp |-> monthly_ltp,
                       weekly |-> m.weekly_position, monthly |-> m.monthly_position])
    IN  IF m0.max_loss_value <= 0
        THEN { Return(m0, "check_portfolio_risk", FALSE) }
        ELSE IF m0.weekly_position = None \/ m0.monthly_position = None
        THEN { Return(m0, "check_portfolio_risk", FALSE) }
        ELSE LET weekly_pnl == (m0.weekly_position[1].entry_price - weekly_ltp) * ORDER_QUANTITY
                 monthly_pnl == (monthly_ltp - m0.monthly_position[1].entry_price) * ORDER_QUANTITY
                 total_pnl == weekly_pnl + monthly_pnl
             IN  IF MaxLossHit(total_pnl, m0.max_loss_value)
                 THEN { Return(x, "check_portfolio_risk", TRUE)
                        : x \in exit_all_positions(m0, "MAX_LOSS") }
                 ELSE { Return(m0, "check_portfolio_risk", FALSE) }

---------------------------------------------------------------------------
(* CalendarPEWeekly.update                                                 *)

\* if self.<slot>: obj = quotes.get(self.<slot>['instrument_key']).  The
\* quote map is read for a held leg only.
QuoteDraws(position, role) == IF position # None THEN Quotes(role) ELSE {None}

ReadQuote(m, position, role, q) ==
    IF position # None THEN Emit(m, [ev |-> "quote", role |-> role, quote |-> q]) ELSE m

\* getattr(obj, 'last_price', 0.0) if obj else 0.0, from the initial 0.0
LastPrice(q) == IF q = None THEN 0 ELSE q[1]

\* A faulty variant of step 4: the state is not saved after an adjustment.
UpdateAdjustUnsaved(m, spot, weekly_chain, monthly_chain) ==
    ReadFlagIf(m.weekly_position # None /\ m.monthly_position # None, m, "can_adjust",
        LAMBDA x, can_adjust :
            IF can_adjust
            THEN check_adjustments(x, spot, weekly_chain, monthly_chain)
            ELSE {x})

\* Step 4: adjustments, only when the snapshot opens the adjustment window.
UpdateAdjust(m, spot, weekly_chain, monthly_chain) ==
    ReadFlagIf(m.weekly_position # None /\ m.monthly_position # None, m, "can_adjust",
        LAMBDA x, can_adjust :
            IF can_adjust
            THEN Bind(check_adjustments(x, spot, weekly_chain, monthly_chain),
                      LAMBDA y : IF y.ret THEN {save_state(y)} ELSE {y})
            ELSE {x})

\* A faulty variant of step 3: update does not return after a risk exit and
\* goes on to the adjustment check.
UpdateRiskFallsThrough(m, spot, weekly_chain, monthly_chain) ==
    UNION { LET m1 == ReadQuote(ReadQuote(m, m.weekly_position, "weekly", w_quote),
                                m.monthly_position, "monthly", m_quote)
            IN  Bind(check_portfolio_risk(m1, LastPrice(w_quote), LastPrice(m_quote)),
                     LAMBDA y : IF y.ret
                                THEN check_adjustments(save_state(y), spot, weekly_chain,
                                                       monthly_chain)
                                ELSE UpdateAdjust(y, spot, weekly_chain, monthly_chain))
            : w_quote \in QuoteDraws(m.weekly_position, "weekly"),
              m_quote \in QuoteDraws(m.monthly_position, "monthly") }

\* Step 3: the portfolio risk check with the last prices of the held legs;
\* step 4 follows unless the risk exit has fired.
UpdateRisk(m, spot, weekly_chain, monthly_chain) ==
    UNION { LET m1 == ReadQuote(ReadQuote(m, m.weekly_position, "weekly", w_quote),
                                m.monthly_position, "monthly", m_quote)
            IN  Bind(check_portfolio_risk(m1, LastPrice(w_quote), LastPrice(m_quote)),
                     LAMBDA y : IF y.ret THEN {save_state(y)}
                                ELSE UpdateAdjust(y, spot, weekly_chain, monthly_chain))
            : w_quote \in QuoteDraws(m.weekly_position, "weekly"),
              m_quote \in QuoteDraws(m.monthly_position, "monthly") }

\* can_enter of step 2: the snapshot's flag, overridden in LIVE mode with
\* strict entry by "today is the monthly chain's expiry, at or after 15:15".
CanEnter(flag, monthly_chain, t) ==
    IF TRADING_MODE = "LIVE" /\ STRICT_MONTHLY_EXPIRY_ENTRY /\ monthly_chain # <<>>
    THEN t.date = monthly_chain[1].expiry_dt /\ t.minute >= ENTRY_TIME_HHMM
    ELSE flag

\* Step 2: entry, or re-entry of a missing weekly leg.
UpdateEntry(m, spot, weekly_chain, monthly_chain, t) ==
    IF m.weekly_position = None /\ m.monthly_position = None
    THEN ReadFlag(m, "can_enter_new_cycle",
             LAMBDA x, flag :
                 IF CanEnter(flag, monthly_chain, t)
                 THEN Bind(enter_strategy(x, spot, weekly_chain, monthly_chain),
                           LAMBDA y : {save_state(y)})
                 ELSE {x})
    ELSE IF m.weekly_position = None
    THEN Bind(adjust_weekly_leg(m, spot, weekly_chain), LAMBDA y : {save_state(y)})
    ELSE {m}

\* Monthly expiry protection: the exit on the day before monthly expiry.
\* A record that has exited carries ret = TRUE: update returns there.
UpdateExpiryProtection(m, t) ==
    ReadFlagIf(t.minute >= 900 /\ (m.weekly_position # None \/ m.monthly_position # None),
               m, "is_day_before_monthly_expiry",
        LAMBDA x, flag :
            IF flag /\ t.minute >= 900 /\ AUTO_EXIT_BEFORE_MONTHLY_EXPIRY_3PM
                    /\ (x.weekly_position # None \/ x.monthly_position # None)
            THEN { [save_state(y) EXCEPT !.ret = TRUE]
                   : y \in exit_all_positions(x, "PRE_MONTHLY_EXPIRY_T1") }
            ELSE { [x EXCEPT !.ret = FALSE] })

\* A faulty variant of the rollover: the date of the last rollover is not
\* looked at.
UpdateRolloverEveryTick(m, t) ==
    IF /\ Weekday(t.date) = ROLLOVER_WEEKDAY
       /\ m.weekly_position # None
       /\ m.weekly_position[1].expiry * 2 <= 3 * 100
    THEN { save_state([SetWeekly(order_callback(m, m.weekly_position[1].instrument_key,
                                                ORDER_QUANTITY, "BUY", "MONDAY_CLOSE", r), None)
                       EXCEPT !.last_rollover_date = t.date])
           : r \in Responses }
    ELSE {m}

\* The scheduled weekday rollover of the weekly leg.
UpdateRollover(m, t) ==
    IF /\ Weekday(t.date) = ROLLOVER_WEEKDAY
       /\ m.weekly_position # None
       /\ m.last_rollover_date # t.date
       /\ m.weekly_position[1].expiry * 2 <= 3 * 100
    THEN { save_state([SetWeekly(order_callback(m, m.weekly_position[1].instrument_key,
                                                ORDER_QUANTITY, "BUY", "MONDAY_CLOSE", r), None)
                       EXCEPT !.last_rollover_date = t.date])
           : r \in Responses }
    ELSE {m}

\* The steps of update after the deltas are refreshed.
UpdateSteps(m, spot, weekly_chain, monthly_chain, t) ==
    Bind(Bind(UpdateRollover(m, t), LAMBDA x : UpdateExpiryProtection(x, t)),
         LAMBDA x :
            IF x.ret THEN {x}
            ELSE Bind(UpdateEntry(x, spot, weekly_chain, monthly_chain, t),
                      LAMBDA y : UpdateRisk(y, spot, weekly_chain, monthly_chain)))

update(m, spot, weekly_chain, monthly_chain, t) ==
    LET m0 == Emit(m, [ev |-> "update", spot |-> spot, cw_chain |-> weekly_chain,
                       m_chain |-> monthly_chain, now |-> t,
                       weekly |-> m.weekly_position, monthly |-> m.monthly_position,
                       last_rollover_date |-> m.last_rollover_date, book |-> m.book])
    IN  IF spot = NoSpot THEN {m0}
        ELSE UpdateSteps(
                 update_deltas(m0, spot,
                     IF weekly_chain # <<>> THEN weekly_chain[1].time_to_expiry ELSE 365,
                     IF monthly_chain # <<>> THEN monthly_chain[1].time_to_expiry ELSE 365),
                 spot, weekly_chain, monthly_chain, t)

---------------------------------------------------------------------------
(* The polling loop around one CalendarPEWeekly.                           *)

\* WeeklyIronfly.__init__: no legs, not adjusted.
IronflyInit ==
    /\ positions = <<>>
    /\ is_adjusted = FALSE
    /\ adj_triggered = FALSE
    /\ overlay_orders = [short |-> 0, long |-> 0]

\* The UpstoxWrapper as it is made, with the bounds of its threads and
\* answers; time is counted in half seconds.

\* The threads that call the wrapper.
Threads == {1, 2}

\* self._mandatory_delay = 1.0
mandatory_delay == 2

\* max_retries=5, the default that every caller of _safe_ltp_call takes
max_retries == 5

\* random.randint(0, 2000) / 1000: no jitter, or the most.
Jitters == {0, 4}

\* A faulty variant of the backoff: five seconds before every re-attempt.
BackoffBaseFlat(retries) == 10

\* 5, 10, 20, 40, 80 seconds
RECURSIVE BackoffBase(_)
BackoffBase(retries) == IF retries <= 1 THEN 10 ELSE 2 * BackoffBase(retries - 1)

\* wait_time = (5 * (2 ** (retries - 1))) + jitter
WaitTime(retries, jitter) == BackoffBase(retries) + jitter

\* The wrapper methods that reach the API, and what the API answers: a
\* response, or an ApiException with its status.
WrapperOps == {"quote", "funds", "order"}
ApiOutcomes == {"ok", "429", "401", "500"}

\* A thread outside the wrapper, with what its last call came to.
\* attempts and last_outcome are history: the API calls the method has made
\* and the answer to the latest.
IdleThread(result) ==
    [pc |-> "idle", op |-> "none", retries |-> 0, sleep |-> 0, result |-> result,
     attempts |-> 0, last_outcome |-> "none"]

\* UpstoxWrapper.__init__: _last_call_time = 0, far behind time.time(); the
\* lock is free and no call has gone out.
WrapperIdle ==
    /\ threads = [t \in Threads |-> IdleThread("none")]
    /\ rate_limit_lock = None
    /\ since_stamp = mandatory_delay
    /\ outbound = [count |-> 0, op |-> "none", prev_op |-> "none",
                   gap |-> mandatory_delay, since |-> mandatory_delay]
    /\ exited = FALSE

\* TradeJournal.__init__ where no log file exists: the file is created with
\* its header and closed_pnl is 0.0.
JournalIdle ==
    /\ log_file = <<>>
    /\ journal = Some([closed_pnl |-> 0, from_file |-> FALSE])
    /\ logged = <<>>

\* No call of the selector on its own is under way.
SelectIdle ==
    /\ sel_args = None
    /\ sel_result = None

Init ==
    /\ weekly_position = None
    /\ monthly_position = None
    /\ last_rollover_date = NoDate
    /\ now = [date |-> 1, minute |-> 570]
    /\ book = [W |-> 0, M |-> 0]
    /\ trace = <<>>
    /\ raised = FALSE
    /\ phase = "idle"
    /\ max_loss_value = MAX_LOSS_VALUE
    /\ IronflyInit
    /\ SelectIdle
    /\ active_strategy = "CalendarPEWeekly"
    /\ JournalIdle
    /\ stopped_on = NoDate
    /\ WrapperIdle

\* What the ledger says the executor holds: short one lot of the weekly
\* contract when the weekly slot is filled, long one lot of the monthly
\* contract when the monthly slot is filled.
Ledger ==
    [W |-> IF weekly_position # None THEN -ORDER_QUANTITY ELSE 0,
     M |-> IF monthly_position # None THEN ORDER_QUANTITY ELSE 0]

\* The executor's book is within MaxDrift lots of the ledger.
BookInBounds ==
    Abs(book.W - Ledger.W) + Abs(book.M - Ledger.M) <= MaxDrift * ORDER_QUANTITY

\* exit_all_positions(reason="PRE_MONTHLY_EXPIRY_T1") was called in the call
\* recorded by tr.
T1ExitIn(tr) ==
    \E k \in DOMAIN tr : /\ tr[k].ev = "call" /\ tr[k].fn = "exit_all_positions"
                         /\ tr[k].reason = "PRE_MONTHLY_EXPIRY_T1"

\* One polling cycle: the loop calls update with the cycle's snapshot.
Update ==
    /\ active_strategy = "CalendarPEWeekly"
    /\ phase = "idle"
    /\ \E spot \in Spots \cup {NoSpot}, weekly_chain \in WeeklyChains,
          monthly_chain \in MonthlyChains :
          \E m \in update(Machine(weekly_position, monthly_position, last_rollover_date,
                                  book, max_loss_value),
                          spot, weekly_chain, monthly_chain, now) :
             /\ weekly_position' = m.weekly_position
             /\ monthly_position' = m.monthly_position
             /\ last_rollover_date' = m.last_rollover_date
             /\ book' = m.book
             /\ trace' = m.trace
             /\ raised' = m.raised
             /\ stopped_on' = IF T1ExitIn(m.trace) THEN now.date ELSE stopped_on
    /\ phase' = "returned"
    /\ UNCHANGED <<now, max_loss_value, ironflyVars, selectVars, active_strategy,
                   journalVars,
                   wrapperVars>>

\* The loop sleeps until the next poll.  An exception out of update is not
\* caught by the loop: the process has ended.
NextPoll ==
    /\ phase = "returned"
    /\ ~raised
    /\ BookInBounds
    /\ phase' = "idle"
    /\ trace' = <<>>
    /\ UNCHANGED <<weekly_position, monthly_position, last_rollover_date, now, book,
                   stopped_on,
                   raised, max_loss_value, ironflyVars, selectVars, active_strategy,
                   journalVars,
                   wrapperVars>>

\* Time passes between polls.
AdvanceClock ==
    /\ phase = "idle"
    /\ \/ /\ now.minute < 900
          /\ now' = [now EXCEPT !.minute = 900]
       \/ /\ now.date < MaxDay
          /\ \E mi \in Minutes : now' = [date |-> now.date + 1, minute |-> mi]
    /\ stopped_on' = IF now'.date = now.date THEN stopped_on ELSE NoDate
    /\ UNCHANGED <<weekly_position, monthly_position, last_rollover_date, book,
                   trace, raised, phase, max_loss_value, ironflyVars, selectVars,
                   active_strategy, journalVars,
                   wrapperVars>>

Next == Update \/ NextPoll \/ AdvanceClock

Spec == Init /\ [][Next]_vars

\* The same loop under either deployment of the risk check: enabled with
\* the shipped MAX_LOSS_VALUE, or disabled with 0.
InitAnyConfig ==
    /\ weekly_position = None
    /\ monthly_position = None
    /\ last_rollover_date = NoDate
    /\ now = [date |-> 1, minute |-> 570]
    /\ book = [W |-> 0, M |-> 0]
    /\ trace = <<>>
    /\ raised = FALSE
    /\ phase = "idle"
    /\ max_loss_value \in {0, MAX_LOSS_VALUE}
    /\ IronflyInit
    /\ SelectIdle
    /\ active_strategy = "CalendarPEWeekly"
    /\ JournalIdle
    /\ stopped_on = NoDate
    /\ WrapperIdle

SpecAnyConfig == InitAnyConfig /\ [][Next]_vars

---------------------------------------------------------------------------
(* A call of select_strike_by_delta on its own, over every chain of puts   *)
(* and calls of up to MaxChainLen contracts.                               *)

\* A chain entry of either option type, one day from expiry.
TypedContract(strike, type) ==
    [Contract(WeeklyKey(strike), 100, 100, 8) EXCEPT !.type = type]

SelectContracts ==
    { TypedContract(k, ty) : k \in {20900, 21000, 21100}, ty \in {"p", "c"} }

SelectChains == UNION { [1..n -> SelectContracts] : n \in 0..MaxChainLen }

\* Targets that two deltas of the grid are equally far from (0.30 lies
\* between the put deltas 0.10 and 0.50, 0.35 between the call deltas 0.20
\* and 0.50), and the at-the-money target.
SelectTargets == {30, 35, 50}

SelectArgs ==
    [spot : Spots, chain : SelectChains, target_delta : SelectTargets,
     option_type : {"p", "c"}]

InitSelect ==
    /\ weekly_position = None
    /\ monthly_position = None
    /\ last_rollover_date = NoDate
    /\ now = [date |-> 1, minute |-> 570]
    /\ book = [W |-> 0, M |-> 0]
    /\ trace = <<>>
    /\ raised = FALSE
    /\ phase = "idle"
    /\ max_loss_value = MAX_LOSS_VALUE
    /\ IronflyInit
    /\ sel_args \in { Some(a) : a \in SelectArgs }
    /\ sel_result = None
    /\ active_strategy = "CalendarPEWeekly"
    /\ JournalIdle
    /\ stopped_on = NoDate
    /\ WrapperIdle

\* The call returns.
CallSelect ==
    /\ phase = "idle"
    /\ sel_args # None
    /\ sel_result' = select_strike_by_delta(sel_args[1].spot, sel_args[1].chain,
                                            sel_args[1].target_delta,
                                            sel_args[1].option_type)
    /\ phase' = "returned"
    /\ UNCHANGED <<weekly_position, monthly_position, last_rollover_date, now, book,
                   stopped_on,
                   trace, raised, max_loss_value, ironflyVars, sel_args,
                   active_strategy, journalVars,
                   wrapperVars>>

NextSelect == CallSelect

SpecSelect == InitSelect /\ [][NextSelect]_vars

---------------------------------------------------------------------------
(* WeeklyIronfly: the put butterfly with its call-calendar overlay.        *)
(* Fractions of the capital are in hundredths (0.01 is 1, 0.03 is 3).      *)

IRONFLY_CAPITAL == 180000
IRONFLY_SL_PERCENT == 1
IRONFLY_TARGET_PERCENT == 3
IRONFLY_ENTRY_WEEKDAY == 1
IRONFLY_ENTRY_TIME == 720
IRONFLY_EXIT_TIME == 900
IRONFLY_LEG1_OFFSET == -50
IRONFLY_LEG2_OFFSET == -250
IRONFLY_LEG3_OFFSET == -450
IRONFLY_ADJ_INWARD_OFFSET == 100

\* The history of overlay orders is counted up to this many per tag.
MaxOverlayCount == 2

\* A chain entry as the iron-fly reads it.
IronflyContract(chain, strike, type) ==
    [strike |-> strike, type |-> type,
     instrument_key |-> [chain |-> chain, strike |-> strike, type |-> type],
     ltp |-> 100, expiry_dt |-> IF chain = "CW" THEN 2 ELSE 9]

\* The chain of one week around 21000: the three puts of the butterfly and
\* the call of the overlay.
ButterflyChain(chain) ==
    << IronflyContract(chain, 20550, "p"), IronflyContract(chain, 20750, "p"),
       IronflyContract(chain, 20950, "p"), IronflyContract(chain, 21050, "c") >>

\* The same chain with a call listed at the strike of leg 3 and no put.
ChainWithoutLeg3(chain) ==
    << IronflyContract(chain, 20550, "c"), IronflyContract(chain, 20750, "p"),
       IronflyContract(chain, 20950, "p"), IronflyContract(chain, 21050, "c") >>

\* The same chain without the call of the overlay.
ChainWithoutCall(chain) ==
    << IronflyContract(chain, 20550, "p"), IronflyContract(chain, 20750, "p"),
       IronflyContract(chain, 20950, "p") >>

\* market_data['nw_chain'] and market_data['cw_chain']
NextWeekChains ==
    { <<>>, ButterflyChain("NW"), ChainWithoutLeg3("NW"), ChainWithoutCall("NW") }
CurrentWeekChains == { <<>>, ButterflyChain("CW") }

\* Spot prices: 21025 is half way between two multiples of 50 and rounds to
\* 21000; 21030 rounds to 21050, whose strikes the chains do not list.
IronflySpots == {21025, 21030}

\* The quote map: it carries the last price of the short put at 20750 or no
\* entry for it, and no entry for any other contract.
IronflyQuotes == {None, Some(64), Some(112)}

\* quotes.get(instrument_key)
QuoteOf(quotes, key) ==
    IF key.strike = 20750 /\ key.type = "p" THEN quotes ELSE None

\* What order_callback hands back to the iron-fly: nothing, or a success
\* with or without the average fill price.
IronflyResponses ==
    { NoResponse,
      [present |-> TRUE, status |-> "success", avg_price |-> None],
      [present |-> TRUE, status |-> "success", avg_price |-> Some(300)] }

\* The answer to an exit order.  exit_all_positions discards it, so what the
\* call does is the same for every answer and one answer stands for all.
ExitResponses ==
    { [present |-> TRUE, status |-> "success", avg_price |-> Some(300)] }

\* round(n / d): Python rounds a half to the even neighbour.
RoundHalfEven(n, d) ==
    LET q == n \div d
        r == n % d
    IN  IF 2 * r < d THEN q
        ELSE IF 2 * r > d THEN q + 1
        ELSE IF q % 2 = 0 THEN q ELSE q + 1

\* round(spot / 50) * 50
Atm(spot) == RoundHalfEven(spot, 50) * 50

\* next((x for x in chain if x['strike'] == strike and x['type'] == type), None)
FindContract(chain, strike, type) ==
    LET hits == { i \in DOMAIN chain : chain[i].strike = strike /\ chain[i].type = type }
    IN  IF hits = {} THEN None
        ELSE Some(chain[CHOOSE i \in hits : \A j \in hits : i <= j])

\* The WeeklyIronfly object while one call of its update runs.
IronflyMachine(p, adjusted) ==
    [positions |-> p, is_adjusted |-> adjusted, trace |-> <<>>, raised |-> FALSE,
     ret |-> FALSE, closed_pnl |-> 0]

\* order_callback(instrument_key, qty, side, tag, ...) answering r.
IronflyOrder(m, key, qty, side, tag, r) ==
    Emit(m, [ev |-> "order", instrument_key |-> key, qty |-> qty,
             side |-> side, tag |-> tag, filled |-> IsSuccess(r),
             avg_price |-> IF IsSuccess(r) THEN r.avg_price ELSE None])

\* The dict appended to self.positions when an order has filled.
IronflyLeg(opt, qty, side, entry_price, type, tag) ==
    [instrument_key |-> opt.instrument_key, qty |-> qty, side |-> side,
     entry_price |-> entry_price, strike |-> opt.strike, type |-> type,
     tag |-> tag, expiry_dt |-> opt.expiry_dt]

\* The outcome of one order that opens a leg: on success the leg is appended
\* to self.positions and logged; otherwise nothing is recorded.
OpenLeg(m, opt, qty, side, type, tag, resp) ==
    IF IsSuccess(resp)
    THEN LET price == AvgPrice(resp, opt.ltp)
         IN  log_trade([m EXCEPT !.positions =
                            Append(@, IronflyLeg(opt, qty, side, price, type, tag))],
                       opt.instrument_key, side, qty, price, tag, None)
    ELSE m

\* WeeklyIronfly.save_state
ironfly_save_state(m) ==
    Emit(m, [ev |-> "save_state", positions |-> m.positions,
             is_adjusted |-> m.is_adjusted])

---------------------------------------------------------------------------
(* WeeklyIronfly.enter_strategy                                            *)

LegSides == << "BUY", "SELL", "BUY" >>
LegQtys == << ORDER_QUANTITY, ORDER_QUANTITY * 2, ORDER_QUANTITY >>
LegTags == << "IF_LEG1", "IF_LEG2", "IF_LEG3" >>

\* The three target strikes of the butterfly.
LegStrikes(spot) ==
    << Atm(spot) + IRONFLY_LEG1_OFFSET, Atm(spot) + IRONFLY_LEG2_OFFSET,
       Atm(spot) + IRONFLY_LEG3_OFFSET >>

\* A faulty variant of the loop: it ends at the first leg whose order fails.
RECURSIVE ExecuteLegsStopAtFailure(_, _, _)
ExecuteLegsStopAtFailure(m, legs_data, i) ==
    IF i > 3 THEN {m}
    ELSE UNION { LET m1 == OpenLeg(IronflyOrder(m, legs_data[i].instrument_key, LegQtys[i],
                                                LegSides[i], LegTags[i], r),
                                   legs_data[i], LegQtys[i], LegSides[i], "PE", LegTags[i], r)
                 IN  IF IsSuccess(r) THEN ExecuteLegsStopAtFailure(m1, legs_data, i + 1)
                     ELSE {m1}
                 : r \in IronflyResponses }

\* The loop that executes the legs, from leg i on.
RECURSIVE ExecuteLegs(_, _, _)
ExecuteLegs(m, legs_data, i) ==
    IF i > 3 THEN {m}
    ELSE UNION { ExecuteLegs(OpenLeg(IronflyOrder(m, legs_data[i].instrument_key, LegQtys[i],
                                                  LegSides[i], LegTags[i], r),
                                     legs_data[i], LegQtys[i], LegSides[i], "PE", LegTags[i], r),
                             legs_data, i + 1)
                 : r \in IronflyResponses }

\* A faulty variant of the entry: each leg is looked up only when its turn
\* comes, after the orders of the legs before it.
RECURSIVE ExecuteLegsUnchecked(_, _, _, _)
ExecuteLegsUnchecked(m, spot, weekly_chain, i) ==
    IF i > 3 THEN {m}
    ELSE LET opt == FindContract(weekly_chain, LegStrikes(spot)[i], "p")
         IN  IF opt = None THEN {m}
             ELSE UNION { ExecuteLegsUnchecked(
                              OpenLeg(IronflyOrder(m, opt[1].instrument_key, LegQtys[i],
                                                   LegSides[i], LegTags[i], r),
                                      opt[1], LegQtys[i], LegSides[i], "PE", LegTags[i], r),
                              spot, weekly_chain, i + 1)
                          : r \in IronflyResponses }

ironfly_enter_strategy_unchecked(m, spot, weekly_chain) ==
    ExecuteLegsUnchecked(Emit(m, [ev |-> "call", fn |-> "enter_strategy", spot |-> spot,
                                  chain |-> weekly_chain]),
                         spot, weekly_chain, 1)

ironfly_enter_strategy(m, spot, weekly_chain) ==
    LET m0 == Emit(m, [ev |-> "call", fn |-> "enter_strategy", spot |-> spot,
                       chain |-> weekly_chain])
        found == [i \in 1..3 |-> FindContract(weekly_chain, LegStrikes(spot)[i], "p")]
    IN  IF \E i \in 1..3 : found[i] = None
        THEN {m0}
        ELSE ExecuteLegs(m0, [i \in 1..3 |-> found[i][1]], 1)

---------------------------------------------------------------------------
(* WeeklyIronfly.apply_adjustment                                          *)

\* next((p for p in self.positions if 'IF_LEG1' in p.get('tag', '')), None),
\* with the first position as the fallback.
Leg1Of(p) ==
    LET hits == { i \in DOMAIN p : p[i].tag = "IF_LEG1" }
    IN  IF hits # {} THEN Some(p[CHOOSE i \in hits : \A j \in hits : i <= j])
        ELSE IF p # <<>> THEN Some(p[1])
        ELSE None

\* The two orders of the call calendar and what follows them; marks says
\* whether the structure is marked adjusted at the end.
BuildOverlay(m, ce_this_week, ce_next_week, marks) ==
    { LET m1 == IronflyOrder(m, ce_this_week.instrument_key, ORDER_QUANTITY, "SELL",
                             "IF_ADJ_CE_SHORT", resp_w)
          m2 == IronflyOrder(m1, ce_next_week.instrument_key, ORDER_QUANTITY, "BUY",
                             "IF_ADJ_CE_LONG", resp_n)
          m3 == OpenLeg(m2, ce_this_week, ORDER_QUANTITY, "SELL", "CE", "IF_ADJ_CE_SHORT", resp_w)
          m4 == OpenLeg(m3, ce_next_week, ORDER_QUANTITY, "BUY", "CE", "IF_ADJ_CE_LONG", resp_n)
      IN  [m4 EXCEPT !.is_adjusted = IF marks THEN TRUE ELSE @]
      : resp_w \in IronflyResponses, resp_n \in IronflyResponses }

\* A faulty variant of the adjustment: the overlay is built and the
\* structure is not marked adjusted.
apply_adjustment_unmarked(m, spot, current_week_chain, next_week_chain) ==
    LET m0 == Emit(m, [ev |-> "call", fn |-> "apply_adjustment"])
        leg1 == Leg1Of(m0.positions)
    IN  IF next_week_chain = <<>> \/ leg1 = None THEN {m0}
        ELSE LET adj_strike == leg1[1].strike + IRONFLY_ADJ_INWARD_OFFSET
                 ce_this_week == FindContract(current_week_chain, adj_strike, "c")
                 ce_next_week == FindContract(next_week_chain, adj_strike, "c")
             IN  IF ce_this_week # None /\ ce_next_week # None
                 THEN BuildOverlay(m0, ce_this_week[1], ce_next_week[1], FALSE)
                 ELSE {m0}

apply_adjustment(m, spot, current_week_chain, next_week_chain) ==
    LET m0 == Emit(m, [ev |-> "call", fn |-> "apply_adjustment"])
        leg1 == Leg1Of(m0.positions)
    IN  IF next_week_chain = <<>> THEN {m0}
        ELSE IF leg1 = None THEN {m0}
        ELSE LET adj_strike == leg1[1].strike + IRONFLY_ADJ_INWARD_OFFSET
                 ce_this_week == FindContract(current_week_chain, adj_strike, "c")
                 ce_next_week == FindContract(next_week_chain, adj_strike, "c")
             IN  IF ce_this_week # None /\ ce_next_week # None
                 THEN BuildOverlay(m0, ce_this_week[1], ce_next_week[1], TRUE)
                 ELSE {m0}

---------------------------------------------------------------------------
(* WeeklyIronfly.calculate_total_pnl and exit_all_positions                *)

\* The open P&L of one leg at the quote map's price, its entry price when
\* the map has no entry for it.
LegPnl(pos, quotes) ==
    LET q == QuoteOf(quotes, pos.instrument_key)
        ltp == IF q # None THEN q[1] ELSE pos.entry_price
    IN  IF pos.side = "BUY" THEN (ltp - pos.entry_price) * pos.qty
        ELSE (pos.entry_price - ltp) * pos.qty

RECURSIVE SumLegPnl(_, _, _)
SumLegPnl(p, quotes, i) ==
    IF i > Len(p) THEN 0 ELSE LegPnl(p[i], quotes) + SumLegPnl(p, quotes, i + 1)

calculate_total_pnl(p, quotes) == SumLegPnl(p, quotes, 1)

\* f"{reason}_EXIT"
IronflyExitTag(reason) ==
    CASE reason = "EXPIRY_TIME_EXIT" -> "EXPIRY_TIME_EXIT_EXIT"
      [] reason = "TARGET_HIT" -> "TARGET_HIT_EXIT"
      [] OTHER -> "POST_ADJ_SL_HIT_EXIT"

\* The loop over self.positions, from position i on.
RECURSIVE ExitLegs(_, _, _)
ExitLegs(m, reason, i) ==
    IF i > Len(m.positions) THEN {m}
    ELSE LET pos == m.positions[i]
             exit_side == IF pos.side = "BUY" THEN "SELL" ELSE "BUY"
         IN  UNION { ExitLegs(IronflyOrder(m, pos.instrument_key, pos.qty, exit_side,
                                           IronflyExitTag(reason), r),
                              reason, i + 1)
                     : r \in ExitResponses }

\* A faulty variant of the exit: the legs are closed and the list emptied,
\* and the structure stays marked as it was.
ironfly_exit_all_positions_keeps_mark(m, reason) ==
    { [x EXCEPT !.positions = <<>>]
      : x \in ExitLegs(Emit(m, [ev |-> "call", fn |-> "exit_all_positions",
                                reason |-> reason, positions |-> m.positions,
                                is_adjusted |-> m.is_adjusted]),
                       reason, 1) }

ironfly_exit_all_positions(m, reason) ==
    { [x EXCEPT !.positions = <<>>, !.is_adjusted = FALSE]
      : x \in ExitLegs(Emit(m, [ev |-> "call", fn |-> "exit_all_positions",
                                reason |-> reason, positions |-> m.positions,
                                is_adjusted |-> m.is_adjusted]),
                       reason, 1) }

---------------------------------------------------------------------------
(* WeeklyIronfly.update                                                    *)

\* pnl_pct >= config.IRONFLY_TARGET_PERCENT
TargetHit(total_pnl) == total_pnl * 100 >= IRONFLY_TARGET_PERCENT * IRONFLY_CAPITAL
\* pnl_pct <= -config.IRONFLY_SL_PERCENT
StopLossHit(total_pnl) == total_pnl * 100 <= -IRONFLY_SL_PERCENT * IRONFLY_CAPITAL

\* Step 3: the P&L monitor of a held structure.
IronflyMonitor(m, spot, cw_chain, nw_chain, quotes) ==
    IF m.positions = <<>> THEN {m}
    ELSE LET total_pnl == calculate_total_pnl(m.positions, quotes)
             m0 == Emit(m, [ev |-> "pnl", total_pnl |-> total_pnl,
                            is_adjusted |-> m.is_adjusted])
         IN  IF TargetHit(total_pnl)
             THEN { ironfly_save_state(x) : x \in ironfly_exit_all_positions(m0, "TARGET_HIT") }
             ELSE IF StopLossHit(total_pnl)
             THEN IF ~m0.is_adjusted
                  THEN UNION { { ironfly_save_state(x)
                                 : x \in apply_adjustment(
                                            Emit(m0, [ev |-> "md", key |-> "can_adjust",
                                                      val |-> can_adjust]),
                                            spot, nw_chain, cw_chain) }
                               : can_adjust \in BOOLEAN }
                  ELSE { ironfly_save_state(x)
                         : x \in ironfly_exit_all_positions(m0, "POST_ADJ_SL_HIT") }
             ELSE {m0}

\* is_entry_day and is_entry_time of step 2.
IsEntryDay(cw_chain, t) ==
    IF cw_chain # <<>> THEN t.date = cw_chain[1].expiry_dt
    ELSE Weekday(t.date) = IRONFLY_ENTRY_WEEKDAY
IsEntryTime(t) == t.minute >= IRONFLY_ENTRY_TIME

\* A faulty variant of the entry: the leg list is not looked at.
IronflyEntryWhileHeld(m, spot, cw_chain, nw_chain, t) ==
    UNION { LET m0 == Emit(m, [ev |-> "md", key |-> "expiry_skipped",
                               val |-> expiry_skipped])
            IN  IF \/ TRADING_MODE = "PAPER"
                   \/ (IsEntryDay(cw_chain, t) /\ IsEntryTime(t))
                   \/ expiry_skipped
                THEN { ironfly_save_state(x)
                       : x \in ironfly_enter_strategy(
                                  m0, spot,
                                  IF expiry_skipped THEN cw_chain ELSE nw_chain) }
                ELSE {m0}
            : expiry_skipped \in BOOLEAN }

\* Step 2: entry when no leg is held.
IronflyEntry(m, spot, cw_chain, nw_chain, t) ==
    IF m.positions # <<>> THEN {m}
    ELSE UNION { LET m0 == Emit(m, [ev |-> "md", key |-> "expiry_skipped",
                                    val |-> expiry_skipped])
                 IN  IF \/ TRADING_MODE = "PAPER"
                        \/ (IsEntryDay(cw_chain, t) /\ IsEntryTime(t))
                        \/ expiry_skipped
                     THEN { ironfly_save_state(x)
                            : x \in ironfly_enter_strategy(
                                       m0, spot,
                                       IF expiry_skipped THEN cw_chain ELSE nw_chain) }
                     ELSE {m0}
                 : expiry_skipped \in BOOLEAN }

\* Step 1: the exit at the expiry of the held structure.  A record that has
\* exited carries ret = TRUE: update returns there.
IronflyExpiryExit(m, t) ==
    IF m.positions = <<>> \/ \A i \in DOMAIN m.positions : m.positions[i].tag # "IF_LEG2"
    THEN { [m EXCEPT !.ret = FALSE] }
    ELSE UNION { LET m0 == Emit(m, [ev |-> "md", key |-> "is_expiry_today",
                                    val |-> is_expiry_today])
                 IN  IF is_expiry_today /\ t.minute >= IRONFLY_EXIT_TIME
                     THEN { [ironfly_save_state(x) EXCEPT !.ret = TRUE]
                            : x \in ironfly_exit_all_positions(m0, "EXPIRY_TIME_EXIT") }
                     ELSE { [m0 EXCEPT !.ret = FALSE] }
                 : is_expiry_today \in BOOLEAN }

ironfly_update(m, hist, spot, cw_chain, nw_chain, quotes, t) ==
    LET m0 == Emit(m, [ev |-> "update", spot |-> spot, cw_chain |-> cw_chain,
                       nw_chain |-> nw_chain, quotes |-> quotes, now |-> t,
                       positions |-> m.positions, is_adjusted |-> m.is_adjusted,
                       adj_triggered |-> hist.adj_triggered,
                       overlay_orders |-> hist.overlay_orders])
    IN  IF spot = NoSpot THEN {m0}
        ELSE UNION { IF x.ret THEN {x}
                     ELSE UNION { IronflyMonitor(y, spot, cw_chain, nw_chain, quotes)
                                  : y \in IronflyEntry(x, spot, cw_chain, nw_chain, t) }
                     : x \in IronflyExpiryExit(m0, t) }

---------------------------------------------------------------------------
(* The polling loop around one WeeklyIronfly.                              *)

\* The orders with the given tag in the record of a call.
CountOrders(tr, tag) ==
    Cardinality({ k \in DOMAIN tr : tr[k].ev = "order" /\ tr[k].tag = tag })

\* apply_adjustment was called in the call recorded by tr.
TriggerFiredIn(tr) ==
    \E k \in DOMAIN tr : tr[k].ev = "call" /\ tr[k].fn = "apply_adjustment"

Capped(n) == IF n > MaxOverlayCount THEN MaxOverlayCount ELSE n

\* One polling cycle: the loop calls update with the cycle's snapshot.  The
\* history of a structure ends when no leg is left.
IronflyUpdate ==
    /\ active_strategy = "WeeklyIronfly"
    /\ phase = "idle"
    /\ \E spot \in IronflySpots \cup {NoSpot}, cw_chain \in CurrentWeekChains,
          nw_chain \in NextWeekChains, quotes \in IronflyQuotes :
          \E m \in ironfly_update(IronflyMachine(positions, is_adjusted),
                                  [adj_triggered |-> adj_triggered,
                                   overlay_orders |-> overlay_orders],
                                  spot, cw_chain, nw_chain, quotes, now) :
             /\ positions' = m.positions
             /\ is_adjusted' = m.is_adjusted
             /\ trace' = m.trace
             /\ raised' = m.raised
             /\ adj_triggered' =
                   IF m.positions = <<>> THEN FALSE
                   ELSE adj_triggered \/ TriggerFiredIn(m.trace)
             /\ overlay_orders' =
                   IF m.positions = <<>> THEN [short |-> 0, long |-> 0]
                   ELSE [short |-> Capped(overlay_orders.short
                                          + CountOrders(m.trace, "IF_ADJ_CE_SHORT")),
                         long |-> Capped(overlay_orders.long
                                         + CountOrders(m.trace, "IF_ADJ_CE_LONG"))]
    /\ phase' = "returned"
    /\ UNCHANGED <<weekly_position, monthly_position, last_rollover_date, now, book,
                   stopped_on,
                   max_loss_value, selectVars, active_strategy, journalVars,
                   wrapperVars>>

NextIronfly == IronflyUpdate \/ NextPoll \/ AdvanceClock

\* The deployment that runs the iron-fly.
InitIronfly ==
    /\ weekly_position = None
    /\ monthly_position = None
    /\ last_rollover_date = NoDate
    /\ now = [date |-> 1, minute |-> 570]
    /\ book = [W |-> 0, M |-> 0]
    /\ trace = <<>>
    /\ raised = FALSE
    /\ phase = "idle"
    /\ max_loss_value = MAX_LOSS_VALUE
    /\ IronflyInit
    /\ SelectIdle
    /\ active_strategy = "WeeklyIronfly"
    /\ JournalIdle
    /\ stopped_on = NoDate
    /\ WrapperIdle

SpecIronfly == InitIronfly /\ [][NextIronfly]_vars

\* The polling loop of either deployment: the loop runs the one strategy
\* that is active.
InitEither ==
    /\ weekly_position = None
    /\ monthly_position = None
    /\ last_rollover_date = NoDate
    /\ now = [date |-> 1, minute |-> 570]
    /\ book = [W |-> 0, M |-> 0]
    /\ trace = <<>>
    /\ raised = FALSE
    /\ phase = "idle"
    /\ max_loss_value = MAX_LOSS_VALUE
    /\ IronflyInit
    /\ SelectIdle
    /\ active_strategy \in {"CalendarPEWeekly", "WeeklyIronfly"}
    /\ JournalIdle
    /\ stopped_on = NoDate
    /\ WrapperIdle

NextEither == Update \/ IronflyUpdate \/ NextPoll \/ AdvanceClock

SpecEither == InitEither /\ [][NextEither]_vars

---------------------------------------------------------------------------
(* trade_logger.TradeJournal on its own: the log file, the running closed  *)
(* P&L, and the journal made anew over the same file.  The pnl column is   *)
(* text in the file: a cell is the sequence of its characters.             *)

\* The longest log followed.
MaxLogLen == 4

\* The pnl arguments of log_trade: none for an opening trade, or the
\* realized amount of a closing one.
JournalPnls == {None, Some(0), Some(7500), Some(-15000)}

DigitChars == << "0", "1", "2", "3", "4", "5", "6", "7", "8", "9" >>

\* The decimal digits of a natural number.
RECURSIVE Digits(_)
Digits(n) ==
    IF n < 10 THEN << DigitChars[n + 1] >>
    ELSE Digits(n \div 10) \o << DigitChars[(n % 10) + 1] >>

\* What csv.DictWriter writes for the pnl of a row: nothing for None, and
\* for a float its repr, "-15000.0" for -15000.0.
CsvCell(pnl) ==
    IF pnl = None THEN <<>>
    ELSE (IF pnl[1] < 0 THEN << "-" >> ELSE <<>>) \o Digits(Abs(pnl[1])) \o << ".", "0" >>

\* The value of a digit character, -1 for any other character.
DigitValue(ch) ==
    IF \E d \in 1..10 : DigitChars[d] = ch
    THEN (CHOOSE d \in 1..10 : DigitChars[d] = ch) - 1
    ELSE -1

\* The number that a run of digits reads as, from the left, after acc.
RECURSIVE ReadDigits(_, _, _)
ReadDigits(text, i, acc) ==
    IF i > Len(text) THEN acc
    ELSE ReadDigits(text, i + 1, acc * 10 + DigitValue(text[i]))

\* float(text) for the cells of the model, whose amounts are whole: an
\* optional sign, digits, a point and zeros.  None stands for ValueError.
ParseFloat(text) ==
    LET body == IF text # <<>> /\ text[1] = "-" THEN Tail(text) ELSE text
        dots == { i \in DOMAIN body : body[i] = "." }
        dot == IF dots = {} THEN Len(body) + 1 ELSE CHOOSE i \in dots : \A j \in dots : i <= j
        whole == SubSeq(body, 1, dot - 1)
        fraction == SubSeq(body, dot + 1, Len(body))
        wellFormed ==
            /\ whole # <<>>
            /\ Cardinality(dots) <= 1
            /\ \A i \in DOMAIN whole : DigitValue(whole[i]) >= 0
            /\ \A i \in DOMAIN fraction : fraction[i] = "0"
        value == ReadDigits(whole, 1, 0)
    IN  IF ~wellFormed THEN None
        ELSE Some(IF body # text THEN -value ELSE value)

\* A faulty variant of the sum: every cell is handed to float, so the empty
\* cell of an opening trade raises and ends the sum.
RECURSIVE SumRowsUnguarded(_, _, _)
SumRowsUnguarded(file, i, acc) ==
    IF i > Len(file) THEN acc
    ELSE LET value == ParseFloat(file[i].pnl)
         IN  IF value = None THEN acc
             ELSE SumRowsUnguarded(file, i + 1, acc + value[1])

\* The loop of _calculate_fixed_pnl from row i on: a row whose pnl cell is
\* empty or reads None is passed over; a cell that float rejects raises
\* inside the try, which ends the loop with what was summed so far.
RECURSIVE SumRows(_, _, _)
SumRows(file, i, acc) ==
    IF i > Len(file) THEN acc
    ELSE LET cell == file[i].pnl
         IN  IF cell = <<>> \/ cell = << "N", "o", "n", "e" >>
             THEN SumRows(file, i + 1, acc)
             ELSE LET value == ParseFloat(cell)
                  IN  IF value = None THEN acc
                      ELSE SumRows(file, i + 1, acc + value[1])

\* TradeJournal._calculate_fixed_pnl
calculate_fixed_pnl(file) == SumRows(file, 1, 0)

\* The row that log_trade appends; the timestamp is the row's place in time.
JournalRow(file, pnl) == [timestamp |-> Len(file) + 1, pnl |-> CsvCell(pnl)]

\* TradeJournal.log_trade: the row is appended to the file and closed_pnl is
\* raised by a pnl that is not None.
LogTrade ==
    /\ phase = "idle"
    /\ journal # None
    /\ Len(log_file) < MaxLogLen
    /\ \E pnl \in JournalPnls :
          /\ log_file' = Append(log_file, JournalRow(log_file, pnl))
          /\ journal' = Some([journal[1] EXCEPT !.closed_pnl =
                                  IF pnl # None THEN @ + pnl[1] ELSE @])
          /\ logged' = Append(logged, pnl)
    /\ UNCHANGED <<weekly_position, monthly_position, last_rollover_date, now, book,
                   stopped_on,
                   trace, raised, phase, max_loss_value, ironflyVars, selectVars,
                   active_strategy,
                   wrapperVars>>

\* The process ends: the journal object is gone, the file stays.
ProcessEnds ==
    /\ phase = "idle"
    /\ journal # None
    /\ journal' = None
    /\ UNCHANGED <<weekly_position, monthly_position, last_rollover_date, now, book,
                   stopped_on,
                   trace, raised, phase, max_loss_value, ironflyVars, selectVars,
                   active_strategy, log_file, logged,
                   wrapperVars>>

\* TradeJournal.__init__ over the file of an earlier run: the file exists
\* and is left as it is, closed_pnl is summed from it.
JournalRestart ==
    /\ phase = "idle"
    /\ journal = None
    /\ journal' = Some([closed_pnl |-> calculate_fixed_pnl(log_file), from_file |-> TRUE])
    /\ UNCHANGED <<weekly_position, monthly_position, last_rollover_date, now, book,
                   stopped_on,
                   trace, raised, phase, max_loss_value, ironflyVars, selectVars,
                   active_strategy, log_file, logged,
                   wrapperVars>>

NextJournal == LogTrade \/ ProcessEnds \/ JournalRestart

SpecJournal == Init /\ [][NextJournal]_vars

---------------------------------------------------------------------------
(* upstox_wrapper.UpstoxWrapper under threads: the rate limit, the retry   *)
(* loop of the quote call, the funds call and the order placement.  Time   *)
(* is counted in half seconds.                                             *)

\* What the strategy's variables do while the wrapper runs: nothing.
StrategyUnchanged ==
    UNCHANGED <<weekly_position, monthly_position, last_rollover_date, now, book,
                stopped_on,
                trace, raised, phase, max_loss_value, ironflyVars, selectVars,
                active_strategy, journalVars>>

\* A thread up to a duration on a clock that is reckoned up to the delay.
UpTo(d) == IF d < mandatory_delay THEN d ELSE mandatory_delay

\* Half a second passes: every sleeper has that much less to sleep, and the
\* clocks since the last stamp and the last outbound call move on.
TimePasses ==
    /\ ~exited
    /\ \E t \in Threads : threads[t].pc # "idle"
    /\ threads' = [t \in Threads |->
                      IF threads[t].sleep > 0
                      THEN [threads[t] EXCEPT !.sleep = @ - 1]
                      ELSE threads[t]]
    /\ since_stamp' = UpTo(since_stamp + 1)
    /\ outbound' = [outbound EXCEPT !.since = UpTo(@ + 1)]
    /\ UNCHANGED <<rate_limit_lock, exited>>
    /\ StrategyUnchanged

\* A thread enters get_spot_price / get_option_chain_quotes (both go through
\* _safe_ltp_call), get_funds or place_order.  The first two start with
\* _wait_for_rate_limit; place_order builds its request and goes to the API.
WrapperCall(t) ==
    /\ ~exited
    /\ threads[t].pc = "idle"
    /\ \E op \in WrapperOps :
          threads' = [threads EXCEPT ![t] =
                         [IdleThread("none") EXCEPT
                             !.pc = IF op = "order" THEN "api" ELSE "acquire",
                             !.op = op]]
    /\ UNCHANGED <<rate_limit_lock, since_stamp, outbound, exited>>
    /\ StrategyUnchanged

\* _wait_for_rate_limit: with self._rate_limit_lock
AcquireLock(t) ==
    /\ ~exited
    /\ threads[t].pc = "acquire"
    /\ rate_limit_lock = None
    /\ rate_limit_lock' = Some(t)
    /\ threads' = [threads EXCEPT ![t].pc = "measure"]
    /\ UNCHANGED <<since_stamp, outbound, exited>>
    /\ StrategyUnchanged

\* _wait_for_rate_limit: elapsed = now - _last_call_time; when it is short
\* of the delay the thread sleeps for the rest, holding the lock.
MeasureElapsed(t) ==
    /\ ~exited
    /\ threads[t].pc = "measure"
    /\ LET elapsed == since_stamp
       IN  threads' = [threads EXCEPT ![t] =
                          IF elapsed < mandatory_delay
                          THEN [@ EXCEPT !.pc = "sleep", !.sleep = mandatory_delay - elapsed]
                          ELSE [@ EXCEPT !.pc = "stamp"]]
    /\ UNCHANGED <<rate_limit_lock, since_stamp, outbound, exited>>
    /\ StrategyUnchanged

\* time.sleep(wait_to_sleep) returns, no sooner than asked.
SleepEnds(t) ==
    /\ ~exited
    /\ threads[t].pc = "sleep"
    /\ threads[t].sleep = 0
    /\ threads' = [threads EXCEPT ![t].pc = "stamp"]
    /\ UNCHANGED <<rate_limit_lock, since_stamp, outbound, exited>>
    /\ StrategyUnchanged

\* _wait_for_rate_limit: self._last_call_time = time.time(), and the lock is
\* let go on leaving the with block.
StampAndRelease(t) ==
    /\ ~exited
    /\ threads[t].pc = "stamp"
    /\ since_stamp' = 0
    /\ rate_limit_lock' = None
    /\ threads' = [threads EXCEPT ![t].pc = "api"]
    /\ UNCHANGED <<outbound, exited>>
    /\ StrategyUnchanged

\* What a thread's method does with the API's answer.
\*   quote (_safe_ltp_call): a response is returned; 429 counts a retry and
\*     either raises after max_retries or backs off; 401 ends the process;
\*     any other status is raised.
\*   funds (get_funds) and order (place_order): every exception is caught
\*     and the method returns, 0.0 or a dict with status error.
AfterApi(th, outcome, jitter) ==
    LET answered == [th EXCEPT !.attempts = @ + 1, !.last_outcome = outcome]
        leaves(result) == [answered EXCEPT !.pc = "idle", !.result = result,
                                           !.retries = 0]
    IN  CASE th.op = "quote" /\ outcome = "ok" -> leaves("ok")
          [] th.op = "quote" /\ outcome = "429" ->
                IF th.retries + 1 > max_retries
                THEN leaves("raised")
                ELSE [answered EXCEPT !.pc = "backoff", !.retries = @ + 1,
                                      !.sleep = WaitTime(th.retries + 1, jitter)]
          [] th.op = "quote" /\ outcome = "401" -> [answered EXCEPT !.pc = "exit"]
          [] th.op = "quote" /\ outcome = "500" -> leaves("raised")
          [] OTHER -> leaves(IF outcome = "ok" THEN "ok" ELSE "error")

\* The outbound API call of a thread: market_quote_api.ltp,
\* user_api.get_user_fund_margin or order_api.place_order.
ApiCall(t) ==
    /\ ~exited
    /\ threads[t].pc = "api"
    /\ \E outcome \in ApiOutcomes :
       \E jitter \in Jitters :
          /\ threads' = [threads EXCEPT ![t] = AfterApi(@, outcome, jitter)]
          /\ exited' = (threads'[t].pc = "exit")
    /\ outbound' = [count |-> IF outbound.count < 2 THEN outbound.count + 1 ELSE 2,
                    op |-> threads[t].op,
                    prev_op |-> outbound.op,
                    gap |-> outbound.since,
                    since |-> 0]
    /\ UNCHANGED <<rate_limit_lock, since_stamp>>
    /\ StrategyUnchanged

\* time.sleep(wait_time) of the backoff returns and the loop of
\* _safe_ltp_call comes round to _wait_for_rate_limit.
BackoffEnds(t) ==
    /\ ~exited
    /\ threads[t].pc = "backoff"
    /\ threads[t].sleep = 0
    /\ threads' = [threads EXCEPT ![t].pc = "acquire"]
    /\ UNCHANGED <<rate_limit_lock, since_stamp, outbound, exited>>
    /\ StrategyUnchanged

NextWrapper ==
    \/ TimePasses
    \/ \E t \in Threads : WrapperCall(t)
    \/ \E t \in Threads : AcquireLock(t)
    \/ \E t \in Threads : MeasureElapsed(t)
    \/ \E t \in Threads : SleepEnds(t)
    \/ \E t \in Threads : StampAndRelease(t)
    \/ \E t \in Threads : ApiCall(t)
    \/ \E t \in Threads : BackoffEnds(t)

SpecWrapper == Init /\ [][NextWrapper]_vars

\* One thread alone in the wrapper.  The thread is scheduled and time moves
\* on: a step that stays possible is taken in the end.
StepInWrapper(t) ==
    \/ AcquireLock(t)
    \/ MeasureElapsed(t)
    \/ SleepEnds(t)
    \/ StampAndRelease(t)
    \/ ApiCall(t)
    \/ BackoffEnds(t)

NextOneThread == TimePasses \/ WrapperCall(1) \/ StepInWrapper(1)

SpecOneThread ==
    /\ Init
    /\ [][NextOneThread]_vars
    /\ WF_vars(TimePasses)
    /\ WF_vars(StepInWrapper(1))

---------------------------------------------------------------------------
(* Reading the record of one call of update.                               *)

Idx == DOMAIN trace

OrderAt(i, tag) == trace[i].ev = "order" /\ trace[i].tag = tag
FilledAt(i, tag) == OrderAt(i, tag) /\ trace[i].filled
LogAt(i) == trace[i].ev = "log_trade"
CallAt(i, fn) == trace[i].ev = "call" /\ trace[i].fn = fn
ReturnAt(i, fn) == trace[i].ev = "return" /\ trace[i].fn = fn
SelectAt(i) == trace[i].ev = "select"
\* self.<slot> = None
ClearsAt(i, slot) == trace[i].ev = "assign" /\ trace[i].slot = slot /\ ~trace[i].held

\* The slot a contract belongs to.
SlotOf(key) == IF key.chain = "W" THEN "weekly" ELSE "monthly"

RollTags == {"WEEKLY_EXIT_ADJ", "WEEKLY_ROLL_ENTRY", "MONTHLY_EXIT_ADJ", "MONTHLY_ROLL_ENTRY"}
ClosingTags == {"WEEKLY_EXIT_ADJ", "MONTHLY_EXIT_ADJ", "EXIT_MAX_LOSS",
                "EXIT_PRE_MONTHLY_EXPIRY_T1", "EXIT_MANUAL", "MONDAY_CLOSE", "EMERGENCY_EXIT"}

\* The rows of the trade log that close a trade: those that carry a pnl.
ClosingRows == { k \in Idx : LogAt(k) /\ trace[k].pnl # None }

\* The weekly SELL of an entry filled at i and its monthly BUY failed at j.
PartialEntry(i, j) ==
    /\ i < j
    /\ FilledAt(i, "WEEKLY_ENTRY")
    /\ OrderAt(j, "MONTHLY_ENTRY") /\ ~trace[j].filled

\* The price an order event reports, or the default the code falls back to.
EventPrice(i, default) == IF trace[i].avg_price # None THEN trace[i].avg_price[1] ELSE default

---------------------------------------------------------------------------
(* Claims C1 to C10                                                         *)

\* C1: when the weekly SELL of enter_strategy fills and the monthly BUY then
\* fails, on return both slots are empty and the trade log holds exactly one
\* closing row, a BUY of the weekly contract tagged EMERGENCY_EXIT whose pnl
\* is (weekly entry price - compensating exit price) * ORDER_QUANTITY.
C1_EntryAllOrNothing ==
    ~raised =>
    \A i \in Idx : FilledAt(i, "WEEKLY_ENTRY") =>
    \A j \in Idx : PartialEntry(i, j) =>
            /\ weekly_position = None
            /\ monthly_position = None
            /\ OrderAt(j + 1, "EMERGENCY_EXIT")
            /\ \E k, e \in Idx :
                  /\ ClosingRows = {k}
                  /\ k > j + 1
                  /\ LogAt(e) /\ trace[e].tag = "WEEKLY_ENTRY"
                  /\ trace[k].instrument_key = trace[i].instrument_key
                  /\ trace[k].side = "BUY"
                  /\ trace[k].tag = "EMERGENCY_EXIT"
                  /\ trace[k].qty = ORDER_QUANTITY
                  /\ trace[k].price = EventPrice(j + 1, 0)
                  /\ trace[k].pnl = Some((trace[e].price - trace[k].price) * ORDER_QUANTITY)

\* C1 witness: an entry whose monthly BUY failed was squared off at 300 after
\* the weekly SELL filled at the chain's last price.
C1_Witness ==
    /\ phase = "returned" /\ ~raised
    /\ \E i, j \in Idx :
          /\ PartialEntry(i, j)
          /\ trace[i].avg_price = None
          /\ FilledAt(j + 1, "EMERGENCY_EXIT")
          /\ trace[j + 1].avg_price = Some(300)
    /\ \E k \in ClosingRows : trace[k].pnl = Some((100 - 300) * ORDER_QUANTITY)

\* C2: whenever the monthly BUY fails after the weekly SELL filled, then for
\* every answer to the compensating BUY the attempt ends with both slots
\* empty and the weekly short closed at the executor (the compensating BUY
\* filled).
C2_FailedEntryAlwaysFlattened ==
    \A i \in Idx : FilledAt(i, "WEEKLY_ENTRY") =>
    \A j \in Idx : PartialEntry(i, j) =>
            /\ weekly_position = None
            /\ monthly_position = None
            /\ \E k \in Idx : k > j /\ FilledAt(k, "EMERGENCY_EXIT")

\* C3: in adjust_weekly_leg and adjust_monthly_leg, when the held leg's exit
\* order does not report success, the slot holds the identical old leg
\* afterwards, no entry order for the replacement is placed and no trade-log
\* row is written for the roll.
C3_RollKeepsOldLegUntilExit ==
    /\ \A c \in Idx : CallAt(c, "adjust_weekly_leg") =>
       \A i \in Idx :
          (/\ c < i
           /\ OrderAt(i, "WEEKLY_EXIT_ADJ") /\ ~trace[i].filled) =>
              /\ trace[c].weekly # None
              /\ weekly_position = trace[c].weekly
              /\ \A k \in Idx : k > c => ~OrderAt(k, "WEEKLY_ROLL_ENTRY")
              /\ \A k \in Idx : (k > c /\ LogAt(k)) =>
                    trace[k].tag \notin {"WEEKLY_EXIT_ADJ", "WEEKLY_ROLL_ENTRY"}
    /\ \A c \in Idx : CallAt(c, "adjust_monthly_leg") =>
       \A i \in Idx :
          (/\ c < i
           /\ OrderAt(i, "MONTHLY_EXIT_ADJ") /\ ~trace[i].filled) =>
              /\ trace[c].monthly # None
              /\ monthly_position = trace[c].monthly
              /\ \A k \in Idx : k > c => ~OrderAt(k, "MONTHLY_ROLL_ENTRY")
              /\ \A k \in Idx : (k > c /\ LogAt(k)) =>
                    trace[k].tag \notin {"MONTHLY_EXIT_ADJ", "MONTHLY_ROLL_ENTRY"}

\* C3 witness: in one call of update the exit order of the weekly roll and
\* the exit order of the monthly roll both failed.
C3_Witness ==
    /\ phase = "returned"
    /\ \E i, j \in Idx :
          /\ OrderAt(i, "WEEKLY_EXIT_ADJ") /\ ~trace[i].filled
          /\ OrderAt(j, "MONTHLY_EXIT_ADJ") /\ ~trace[j].filled
    /\ weekly_position # None
    /\ monthly_position # None

\* The scheduled exit before monthly expiry ran in this call of update.
ExitedBeforeExpiry ==
    \E k \in Idx : CallAt(k, "exit_all_positions") /\ trace[k].reason = "PRE_MONTHLY_EXPIRY_T1"

\* C4: a call of update that starts with exactly one slot empty, with a spot
\* price and a chain for that slot, places a new entry order for the empty
\* slot (unless the scheduled exit closes the book): for the weekly slot and
\* for the monthly slot.
C4_EmptySlotRetriedNextTick ==
    (trace # <<>> /\ trace[1].spot # NoSpot /\ ~ExitedBeforeExpiry) =>
        /\ (trace[1].weekly = None /\ trace[1].monthly # None /\ trace[1].cw_chain # <<>>) =>
              \E k \in Idx : /\ OrderAt(k, "WEEKLY_ROLL_ENTRY")
                             /\ trace[k].side = "SELL"
        /\ (trace[1].monthly = None /\ trace[1].weekly # None /\ trace[1].m_chain # <<>>) =>
              \E k \in Idx : /\ trace[k].ev = "order"
                             /\ trace[k].tag \in {"MONTHLY_ROLL_ENTRY", "MONTHLY_ENTRY"}
                             /\ trace[k].side = "BUY"

\* C5: for every closing order that fills (roll exit, risk exit, scheduled
\* exit, MONDAY_CLOSE, emergency square-off) a trade-log row for that close
\* is appended before the slot of that leg is set to empty.
C5_AuditTrailBeforeClearing ==
    \A i \in Idx :
        (trace[i].ev = "order" /\ trace[i].tag \in ClosingTags /\ trace[i].filled) =>
    \A j \in Idx :
        (i < j /\ ClearsAt(j, SlotOf(trace[i].instrument_key))) =>
            \E k \in Idx :
                /\ i < k /\ k < j
                /\ LogAt(k)
                /\ trace[k].instrument_key = trace[i].instrument_key
                /\ trace[k].tag = trace[i].tag

\* C6: when the portfolio risk exit fires, for every answer to the two exit
\* orders it sends a BUY for the weekly leg and a SELL for the monthly leg,
\* writes a trade-log row with a pnl for each of the two legs, leaves both
\* slots empty and returns true.
C6_RiskExitRecordsEveryLeg ==
    \A c \in Idx :
        (CallAt(c, "exit_all_positions") /\ trace[c].reason = "MAX_LOSS") =>
            LET w == trace[c - 1].weekly[1].instrument_key
                mo == trace[c - 1].monthly[1].instrument_key
            IN  /\ CallAt(c - 1, "check_portfolio_risk")
                /\ \E k \in Idx : /\ k > c /\ OrderAt(k, "EXIT_MAX_LOSS")
                                  /\ trace[k].instrument_key = w /\ trace[k].side = "BUY"
                /\ \E k \in Idx : /\ k > c /\ OrderAt(k, "EXIT_MAX_LOSS")
                                  /\ trace[k].instrument_key = mo /\ trace[k].side = "SELL"
                /\ \E k \in ClosingRows : k > c /\ trace[k].instrument_key = w
                /\ \E k \in ClosingRows : k > c /\ trace[k].instrument_key = mo
                /\ weekly_position = None
                /\ monthly_position = None
                /\ \E r \in Idx : r > c /\ ReturnAt(r, "check_portfolio_risk") /\ trace[r].value

\* The open P&L check_portfolio_risk is called with at c.
TotalPnlAt(c) ==
    (trace[c].weekly[1].entry_price - trace[c].weekly_ltp) * ORDER_QUANTITY
    + (trace[c].monthly_ltp - trace[c].monthly[1].entry_price) * ORDER_QUANTITY

\* The call of check_portfolio_risk at c exits all positions and returns true.
RiskFiredAt(c) ==
    /\ c + 1 \in Idx
    /\ CallAt(c + 1, "exit_all_positions") /\ trace[c + 1].reason = "MAX_LOSS"
    /\ \E r \in Idx : r > c /\ ReturnAt(r, "check_portfolio_risk") /\ trace[r].value

\* The call of check_portfolio_risk at c returns false at once.
RiskNoOpAt(c) ==
    /\ c + 1 \in Idx
    /\ ReturnAt(c + 1, "check_portfolio_risk") /\ ~trace[c + 1].value

\* C7: with MAX_LOSS_VALUE > 0 and both legs held, check_portfolio_risk exits
\* and returns true if and only if (weekly entry - weekly ltp) * qty +
\* (monthly ltp - monthly entry) * qty <= -|MAX_LOSS_VALUE|, and returns false
\* at once otherwise; the threshold test holds at -|MAX_LOSS_VALUE| exactly and
\* fails one unit above it.
C7_RiskExitInclusiveBoundary ==
    /\ \A c \in Idx :
          (/\ CallAt(c, "check_portfolio_risk")
           /\ max_loss_value > 0
           /\ trace[c].weekly # None /\ trace[c].monthly # None) =>
              /\ RiskFiredAt(c) <=> TotalPnlAt(c) <= -Abs(max_loss_value)
              /\ RiskNoOpAt(c) <=> TotalPnlAt(c) > -Abs(max_loss_value)
    /\ max_loss_value > 0 =>
          /\ MaxLossHit(-Abs(max_loss_value), max_loss_value)
          /\ ~MaxLossHit(-Abs(max_loss_value) + 1, max_loss_value)

\* C7 witness: the risk exit fired with the open P&L exactly at the
\* threshold.
C7_Witness ==
    \E c \in Idx :
        /\ CallAt(c, "check_portfolio_risk")
        /\ trace[c].weekly # None /\ trace[c].monthly # None
        /\ max_loss_value = MAX_LOSS_VALUE
        /\ TotalPnlAt(c) = -MAX_LOSS_VALUE
        /\ RiskFiredAt(c)

\* C8: if MAX_LOSS_VALUE <= 0, or the weekly or the monthly slot is empty,
\* check_portfolio_risk returns false at once: no order, no trade-log row,
\* no assignment and no exit between the call and its return.  The call that
\* follows a risk exit finds both slots empty and is such a call.
C8_RiskCheckNoOp ==
    \A c \in Idx :
        (/\ CallAt(c, "check_portfolio_risk")
         /\ (max_loss_value <= 0 \/ trace[c].weekly = None \/ trace[c].monthly = None)) =>
            /\ RiskNoOpAt(c)
            /\ \A k \in Idx : k > c => ~CallAt(k, "exit_all_positions")
            /\ \A k \in Idx : k > c => ~OrderAt(k, "EXIT_MAX_LOSS")

\* C8 witness: check_portfolio_risk was called while disabled with both legs held and
\* an open loss at the shipped threshold.
C8_Witness ==
    \E c \in Idx :
        /\ CallAt(c, "check_portfolio_risk")
        /\ max_loss_value = 0
        /\ trace[c].weekly # None /\ trace[c].monthly # None
        /\ TotalPnlAt(c) <= -MAX_LOSS_VALUE
        /\ RiskNoOpAt(c)

\* C9: in a call of update in which check_portfolio_risk returns true, no
\* adjustment logic runs afterwards: no call of check_adjustments or of a
\* roll, no roll selection and no order tagged WEEKLY_EXIT_ADJ,
\* WEEKLY_ROLL_ENTRY, MONTHLY_EXIT_ADJ or MONTHLY_ROLL_ENTRY.
C9_RiskExitBeforeAdjustment ==
    \A r \in Idx : (ReturnAt(r, "check_portfolio_risk") /\ trace[r].value) =>
    \A k \in Idx : k > r =>
            /\ ~SelectAt(k)
            /\ ~(trace[k].ev = "call")
            /\ ~(trace[k].ev = "order")

\* C9 witness: the risk exit fired on a snapshot whose deltas also call for
\* a roll of both legs.
C9_Witness ==
    /\ phase = "returned"
    /\ \E c \in Idx :
          /\ CallAt(c, "check_portfolio_risk")
          /\ RiskFiredAt(c)
          /\ trace[c].weekly[1].delta >= WEEKLY_ADJ_TRIGGER_DELTA
          /\ trace[c].monthly[1].delta >= MONTHLY_ADJ_TRIGGER_DELTA

\* C10: if the selector returns no contract for the weekly or for the
\* monthly leg, enter_strategy places no order, writes no trade-log row and
\* leaves both slots empty.
C10_EntryAbortsOnSelectionFailure ==
    \A c \in Idx : CallAt(c, "enter_strategy") =>
    \A s \in Idx :
        (s > c /\ SelectAt(s) /\ ~trace[s].found) =>
            /\ weekly_position = None
            /\ monthly_position = None
            /\ \A k \in Idx : k > c => (trace[k].ev # "order" /\ ~LogAt(k))

\* C10 witness: an entry found its weekly contract but no monthly contract.
C10_Witness ==
    /\ phase = "returned"
    /\ \E c, s \in Idx :
          /\ CallAt(c, "enter_strategy")
          /\ s > c + 1
          /\ SelectAt(s - 1) /\ trace[s - 1].what = "weekly" /\ trace[s - 1].found
          /\ SelectAt(s) /\ trace[s].what = "monthly" /\ ~trace[s].found

---------------------------------------------------------------------------
(* Claims C11 to C20                                                        *)

\* C11: the two-leg entry sends the weekly SELL first and the monthly BUY
\* second: every MONTHLY_ENTRY order is a BUY and the one order before it in
\* the same call of enter_strategy is a WEEKLY_ENTRY SELL that filled; and
\* when the WEEKLY_ENTRY SELL fails, no order at all follows it, the entry
\* writes no trade-log row and both slots are empty.
C11_EntrySellWeeklyThenBuyMonthly ==
    \A c \in Idx : CallAt(c, "enter_strategy") =>
        /\ \A j \in Idx : (j > c /\ OrderAt(j, "MONTHLY_ENTRY")) =>
              /\ trace[j].side = "BUY"
              /\ \E i \in Idx :
                    /\ c < i /\ i < j
                    /\ FilledAt(i, "WEEKLY_ENTRY") /\ trace[i].side = "SELL"
                    /\ \A k \in Idx : (c < k /\ k < j /\ k # i) => trace[k].ev # "order"
        /\ \A i \in Idx : (i > c /\ OrderAt(i, "WEEKLY_ENTRY") /\ ~trace[i].filled) =>
              /\ weekly_position = None
              /\ monthly_position = None
              /\ \A k \in Idx : k > i => trace[k].ev # "order"
              /\ \A k \in Idx : k > c => ~LogAt(k)

\* C11 witness: an entry selected both contracts and its weekly SELL failed.
C11_Witness ==
    /\ phase = "returned" /\ ~raised
    /\ \E c, i \in Idx :
          /\ CallAt(c, "enter_strategy")
          /\ i > c
          /\ OrderAt(i, "WEEKLY_ENTRY") /\ trace[i].side = "SELL" /\ ~trace[i].filled
          /\ SelectAt(i - 1) /\ trace[i - 1].found

\* An order or a trade-log row at k for a contract of the given slot.
TouchesSlotAt(k, slot) ==
    /\ trace[k].ev \in {"order", "log_trade"}
    /\ SlotOf(trace[k].instrument_key) = slot

\* C12: adjust_weekly_leg and adjust_monthly_leg select the replacement as
\* their first step, before any order; when the selector returns none, no
\* order is placed and no trade-log row is written for the slot from the call
\* on, and the slot holds on return the leg it held at the call.
C12_NoRollWithoutReplacement ==
    /\ \A c \in Idx : CallAt(c, "adjust_weekly_leg") =>
          /\ c + 1 \in Idx /\ SelectAt(c + 1) /\ trace[c + 1].what = "weekly"
          /\ ~trace[c + 1].found =>
                /\ weekly_position = trace[c].weekly
                /\ \A k \in Idx : k > c => ~TouchesSlotAt(k, "weekly")
    /\ \A c \in Idx : CallAt(c, "adjust_monthly_leg") =>
          /\ c + 1 \in Idx /\ SelectAt(c + 1) /\ trace[c + 1].what = "monthly"
          /\ ~trace[c + 1].found =>
                /\ monthly_position = trace[c].monthly
                /\ \A k \in Idx : k > c => ~TouchesSlotAt(k, "monthly")

\* C12 witness: with both legs held and both triggers breached, neither roll
\* found a replacement.
C12_Witness ==
    /\ phase = "returned"
    /\ weekly_position # None /\ monthly_position # None
    /\ \E c, d \in Idx :
          /\ CallAt(c, "adjust_weekly_leg") /\ trace[c].weekly # None
          /\ SelectAt(c + 1) /\ ~trace[c + 1].found
          /\ CallAt(d, "adjust_monthly_leg") /\ trace[d].monthly # None
          /\ SelectAt(d + 1) /\ ~trace[d + 1].found

\* The exit order of a roll filled at i and its replacement order failed at j.
RollEntryFailed(i, j, exit_tag, entry_tag) ==
    /\ i < j
    /\ FilledAt(i, exit_tag)
    /\ OrderAt(j, entry_tag) /\ ~trace[j].filled

\* The trade-log rows of the tick that carry one of the two tags of a roll.
RollRows(exit_tag, entry_tag) ==
    { k \in Idx : LogAt(k) /\ trace[k].tag \in {exit_tag, entry_tag} }

\* C13: when the exit order of a roll fills and the replacement order fails,
\* the rolled slot is empty on return, the roll has logged exactly one row,
\* the closing row with its realized pnl, and no opening row, and no order
\* for a contract of that slot follows the failed one in the tick.
C13_RollEntryFailureLeavesSlotEmpty ==
    /\ \A i \in Idx : FilledAt(i, "WEEKLY_EXIT_ADJ") =>
       \A j \in Idx : RollEntryFailed(i, j, "WEEKLY_EXIT_ADJ", "WEEKLY_ROLL_ENTRY") =>
          /\ weekly_position = None
          /\ \E k \in Idx :
                /\ RollRows("WEEKLY_EXIT_ADJ", "WEEKLY_ROLL_ENTRY") = {k}
                /\ i < k /\ k < j
                /\ trace[k].tag = "WEEKLY_EXIT_ADJ" /\ trace[k].pnl # None
          /\ \A k \in Idx : (k > j /\ trace[k].ev = "order") =>
                SlotOf(trace[k].instrument_key) # "weekly"
    /\ \A i \in Idx : FilledAt(i, "MONTHLY_EXIT_ADJ") =>
       \A j \in Idx : RollEntryFailed(i, j, "MONTHLY_EXIT_ADJ", "MONTHLY_ROLL_ENTRY") =>
          /\ monthly_position = None
          /\ \E k \in Idx :
                /\ RollRows("MONTHLY_EXIT_ADJ", "MONTHLY_ROLL_ENTRY") = {k}
                /\ i < k /\ k < j
                /\ trace[k].tag = "MONTHLY_EXIT_ADJ" /\ trace[k].pnl # None
          /\ \A k \in Idx : (k > j /\ trace[k].ev = "order") =>
                SlotOf(trace[k].instrument_key) # "monthly"

\* C13 witness: in one tick both rolls closed their old leg and both
\* replacement orders failed.
C13_Witness ==
    /\ phase = "returned" /\ ~raised
    /\ weekly_position = None /\ monthly_position = None
    /\ \E i, j \in Idx : RollEntryFailed(i, j, "WEEKLY_EXIT_ADJ", "WEEKLY_ROLL_ENTRY")
    /\ \E i, j \in Idx : RollEntryFailed(i, j, "MONTHLY_EXIT_ADJ", "MONTHLY_ROLL_ENTRY")

\* The journal's running closed P&L just before the row at k was appended.
ClosedPnlBefore(k) ==
    LET prior == { j \in Idx : j < k /\ LogAt(j) }
    IN  IF prior = {} THEN 0
        ELSE trace[CHOOSE j \in prior : \A h \in prior : h <= j].closed_pnl

\* The exit order of a roll filled at i: the next step appends the closing
\* row with the given realized pnl, which raises the running closed P&L by
\* that amount, and only the step after that sets the still held slot empty.
RollExitBooked(i, slot, tag, side, pnl) ==
    /\ i + 2 \in Idx
    /\ LogAt(i + 1)
    /\ trace[i + 1].instrument_key = trace[i].instrument_key
    /\ trace[i + 1].tag = tag /\ trace[i + 1].side = side
    /\ trace[i + 1].qty = ORDER_QUANTITY
    /\ trace[i + 1].price = EventPrice(i, 0)
    /\ trace[i + 1].pnl = Some(pnl)
    /\ trace[i + 1].closed_pnl = ClosedPnlBefore(i + 1) + pnl
    /\ ClearsAt(i + 2, slot) /\ trace[i + 2].was_held

\* C14: a roll exit that fills books its realized pnl before the slot is
\* cleared: for the short weekly leg (entry price - exit price) *
\* ORDER_QUANTITY, for the long monthly leg (exit price - entry price) *
\* ORDER_QUANTITY, the exit price being the one the fill reports (0 when it
\* reports none); the closing row is appended and the running closed P&L
\* raised by that amount, and only then is the slot set to empty.
C14_RollExitPnlBookedBeforeClearing ==
    /\ \A i \in Idx : FilledAt(i, "WEEKLY_EXIT_ADJ") =>
          /\ CallAt(i - 2, "adjust_weekly_leg")
          /\ RollExitBooked(i, "weekly", "WEEKLY_EXIT_ADJ", "BUY",
                 (trace[i - 2].weekly[1].entry_price - EventPrice(i, 0)) * ORDER_QUANTITY)
    /\ \A i \in Idx : FilledAt(i, "MONTHLY_EXIT_ADJ") =>
          /\ CallAt(i - 2, "adjust_monthly_leg")
          /\ RollExitBooked(i, "monthly", "MONTHLY_EXIT_ADJ", "SELL",
                 (EventPrice(i, 0) - trace[i - 2].monthly[1].entry_price) * ORDER_QUANTITY)

\* C14 witness: one tick rolled both legs; the weekly short sold at 100 was
\* bought back at 300 and the closed P&L after the monthly exit is the sum of
\* the two realized amounts, neither of them zero.
C14_Witness ==
    /\ phase = "returned" /\ ~raised
    /\ \E i, j \in Idx :
          /\ i < j
          /\ FilledAt(i, "WEEKLY_EXIT_ADJ") /\ FilledAt(j, "MONTHLY_EXIT_ADJ")
          /\ trace[i + 1].pnl = Some((100 - 300) * ORDER_QUANTITY)
          /\ trace[j + 1].pnl # Some(0)
          /\ trace[j + 1].closed_pnl = trace[i + 1].pnl[1] + trace[j + 1].pnl[1]

\* A roll of the weekly, of the monthly leg is attempted after the step c.
WeeklyRollAttemptedAfter(c) == \E k \in Idx : k > c /\ CallAt(k, "adjust_weekly_leg")
MonthlyRollAttemptedAfter(c) == \E k \in Idx : k > c /\ CallAt(k, "adjust_monthly_leg")

\* C15: in check_adjustments with both legs held, adjust_weekly_leg is called
\* if and only if the weekly leg's stored delta is >= WEEKLY_ADJ_TRIGGER_DELTA
\* or <= WEEKLY_ADJ_TRIGGER_DELTA_LOW, and adjust_monthly_leg if and only if
\* the monthly leg's stored delta is >= MONTHLY_ADJ_TRIGGER_DELTA or <=
\* MONTHLY_ADJ_TRIGGER_DELTA_LOW.
C15_RollTriggersTwoSidedInclusive ==
    \A c \in Idx :
        (/\ CallAt(c, "check_adjustments")
         /\ trace[c].weekly # None /\ trace[c].monthly # None) =>
            LET wd == trace[c].weekly[1].delta
                md == trace[c].monthly[1].delta
            IN  /\ WeeklyRollAttemptedAfter(c) <=>
                      (wd >= WEEKLY_ADJ_TRIGGER_DELTA \/ wd <= WEEKLY_ADJ_TRIGGER_DELTA_LOW)
                /\ MonthlyRollAttemptedAfter(c) <=>
                      (md >= MONTHLY_ADJ_TRIGGER_DELTA \/ md <= MONTHLY_ADJ_TRIGGER_DELTA_LOW)

\* C15 witness: a weekly roll was attempted with the weekly delta exactly at
\* its high threshold while the monthly delta, strictly between its two
\* thresholds, called for none.
C15_Witness ==
    /\ phase = "returned"
    /\ \E c \in Idx :
          /\ CallAt(c, "check_adjustments")
          /\ trace[c].weekly # None /\ trace[c].monthly # None
          /\ trace[c].weekly[1].delta = WEEKLY_ADJ_TRIGGER_DELTA
          /\ trace[c].monthly[1].delta > MONTHLY_ADJ_TRIGGER_DELTA_LOW
          /\ trace[c].monthly[1].delta < MONTHLY_ADJ_TRIGGER_DELTA
          /\ WeeklyRollAttemptedAfter(c)
          /\ ~MonthlyRollAttemptedAfter(c)

\* C16: every call of adjust_monthly_leg is made with the target that belongs
\* to its trigger: MONTHLY_ROLL_TARGET_DELTA_FALL when the monthly leg's
\* stored delta is >= MONTHLY_ADJ_TRIGGER_DELTA, MONTHLY_ROLL_TARGET_DELTA_RISE
\* when it is <= MONTHLY_ADJ_TRIGGER_DELTA_LOW; the replacement is selected at
\* that target.
C16_MonthlyRollTargetByDirection ==
    \A c \in Idx : CallAt(c, "adjust_monthly_leg") =>
        LET md == trace[c].monthly[1].delta
        IN  /\ trace[c].monthly # None
            /\ md >= MONTHLY_ADJ_TRIGGER_DELTA \/ md <= MONTHLY_ADJ_TRIGGER_DELTA_LOW
            /\ md >= MONTHLY_ADJ_TRIGGER_DELTA =>
                  trace[c].target_delta = MONTHLY_ROLL_TARGET_DELTA_FALL
            /\ md <= MONTHLY_ADJ_TRIGGER_DELTA_LOW =>
                  trace[c].target_delta = MONTHLY_ROLL_TARGET_DELTA_RISE
            /\ SelectAt(c + 1) /\ trace[c + 1].what = "monthly"
            /\ trace[c + 1].target_delta = trace[c].target_delta

\* C16 witness: a monthly roll triggered from the low side selected its
\* replacement at MONTHLY_ROLL_TARGET_DELTA_RISE and bought it.
C16_Witness ==
    /\ phase = "returned"
    /\ \E c, k \in Idx :
          /\ CallAt(c, "adjust_monthly_leg")
          /\ trace[c].monthly[1].delta <= MONTHLY_ADJ_TRIGGER_DELTA_LOW
          /\ SelectAt(c + 1) /\ trace[c + 1].found
          /\ trace[c + 1].target_delta = MONTHLY_ROLL_TARGET_DELTA_RISE
          /\ k > c /\ FilledAt(k, "MONTHLY_ROLL_ENTRY")

\* The positions of the chain in sel_args that hold a contract of the
\* requested option type.
Matching ==
    { i \in DOMAIN sel_args[1].chain : sel_args[1].chain[i].type = sel_args[1].option_type }

\* |delta| of the contract at position i, and its distance to the target.
AbsDeltaAt(i) ==
    Abs(calculate_delta(sel_args[1].option_type, sel_args[1].spot,
                        sel_args[1].chain[i].strike,
                        sel_args[1].chain[i].time_to_expiry, sel_args[1].chain[i].iv))
DistAt(i) == Abs(AbsDeltaAt(i) - sel_args[1].target_delta)

\* The positions of the requested type at the least distance to the target.
Closest == { i \in Matching : \A j \in Matching : DistAt(i) <= DistAt(j) }

\* C17: select_strike_by_delta returns none exactly when the chain holds no
\* contract of the requested option type; otherwise it returns the contract
\* at the first position, in chain order, among those of the requested type
\* at the least distance | |delta| - target |, with calculated_delta that
\* contract's |delta|.
C17_SelectFirstClosest ==
    (phase = "returned" /\ sel_args # None) =>
        /\ sel_result = None <=> Matching = {}
        /\ Matching # {} =>
              \E i \in Closest :
                 /\ \A j \in Closest : i <= j
                 /\ sel_result = Some([contract |-> sel_args[1].chain[i],
                                       calculated_delta |-> AbsDeltaAt(i)])

\* C17 witness: the chain starts with a contract of the other type and holds
\* two different contracts of the requested type equally close to the
\* target; the earlier of the two was returned.
C17_Witness ==
    /\ phase = "returned" /\ sel_args # None
    /\ 1 \notin Matching
    /\ \E i, j \in Closest :
          /\ i < j
          /\ sel_args[1].chain[i] # sel_args[1].chain[j]
          /\ sel_result = Some([contract |-> sel_args[1].chain[i],
                                calculated_delta |-> AbsDeltaAt(i)])

\* The three target strikes of the entry called at c all resolve to a put
\* of the chain it was called with.
AllLegsResolveAt(c) ==
    \A off \in {IRONFLY_LEG1_OFFSET, IRONFLY_LEG2_OFFSET, IRONFLY_LEG3_OFFSET} :
        \E x \in DOMAIN trace[c].chain :
            /\ trace[c].chain[x].strike = Atm(trace[c].spot) + off
            /\ trace[c].chain[x].type = "p"

\* C18: WeeklyIronfly.enter_strategy places an order only if all three
\* target strikes (ATM + LEG1, LEG2, LEG3 offsets) resolve to a put of the
\* chain; if one is missing, the tick places no order, writes no trade-log
\* row and the leg list is empty.
C18_IronflyEntryAtomicChecked ==
    \A c \in Idx : CallAt(c, "enter_strategy") =>
        /\ (\E k \in Idx : k > c /\ trace[k].ev = "order") => AllLegsResolveAt(c)
        /\ ~AllLegsResolveAt(c) =>
              /\ positions = <<>>
              /\ \A k \in Idx : trace[k].ev # "order" /\ ~LogAt(k)

\* C18 witness: an entry was called with a chain that lists the puts of
\* leg 1 and leg 2 and, at the strike of leg 3, a call only.
C18_Witness ==
    /\ phase = "returned"
    /\ positions = <<>>
    /\ \E c \in Idx :
          /\ CallAt(c, "enter_strategy")
          /\ trace[c].chain = ChainWithoutLeg3("NW")
          /\ Atm(trace[c].spot) = 21000
          /\ ~AllLegsResolveAt(c)

\* C19: once the adjustment trigger has fired for a structure the structure
\* is marked adjusted, and on a later tick of the same structure whose pnl
\* fraction is <= -IRONFLY_SL_PERCENT the engine exits all legs and does not
\* run the adjustment again.
C19_SecondBreachForcesExit ==
    /\ (\E c \in Idx : CallAt(c, "apply_adjustment")) => is_adjusted
    /\ (trace # <<>> /\ trace[1].adj_triggered) =>
          \A p \in Idx : (trace[p].ev = "pnl" /\ StopLossHit(trace[p].total_pnl)) =>
              /\ \E k \in Idx : k > p /\ CallAt(k, "exit_all_positions")
              /\ \A k \in Idx : ~CallAt(k, "apply_adjustment")

\* C20: between the entry of a structure and its full exit at most one
\* IF_ADJ_CE_SHORT order and at most one IF_ADJ_CE_LONG order are placed:
\* the orders of earlier ticks of the structure and those of this tick
\* together are at most one per tag.
C20_OverlayBuiltAtMostOnce ==
    /\ overlay_orders.short <= 1
    /\ overlay_orders.long <= 1
    /\ trace # <<>> =>
          /\ trace[1].overlay_orders.short + CountOrders(trace, "IF_ADJ_CE_SHORT") <= 1
          /\ trace[1].overlay_orders.long + CountOrders(trace, "IF_ADJ_CE_LONG") <= 1

\* C20 witness: a structure whose overlay orders were sent on an earlier
\* tick breached the stop loss again and was exited, with no overlay order.
C20_Witness ==
    /\ phase = "returned"
    /\ trace # <<>>
    /\ trace[1].overlay_orders = [short |-> 1, long |-> 1]
    /\ trace[1].adj_triggered
    /\ \E p, k \in Idx :
          /\ trace[p].ev = "pnl" /\ StopLossHit(trace[p].total_pnl)
          /\ k > p
          /\ CallAt(k, "exit_all_positions") /\ trace[k].reason = "POST_ADJ_SL_HIT"
    /\ CountOrders(trace, "IF_ADJ_CE_SHORT") = 0
    /\ CountOrders(trace, "IF_ADJ_CE_LONG") = 0
    /\ positions = <<>>

\* The side that closes a leg held with the given side.
ReverseSide(side) == IF side = "BUY" THEN "SELL" ELSE "BUY"

\* The orders of the tick after the step c.
OrdersAfter(c) == { k \in Idx : k > c /\ trace[k].ev = "order" }

\* C21: exit_all_positions of the iron-fly places exactly one order per held
\* leg, in the order of the leg list, each for the leg's contract with the
\* leg's quantity and the side opposite to the leg's side; no other order
\* follows in the tick, and when the tick returns the leg list is empty and
\* is_adjusted is false, which is also what the tick persists.
C21_IronflyExitReversesEveryLeg ==
    \A c \in Idx : CallAt(c, "exit_all_positions") =>
        LET held == trace[c].positions
        IN  /\ OrdersAfter(c) = { c + i : i \in 1..Len(held) }
            /\ \A i \in 1..Len(held) :
                  /\ trace[c + i].instrument_key = held[i].instrument_key
                  /\ trace[c + i].qty = held[i].qty
                  /\ trace[c + i].side = ReverseSide(held[i].side)
                  /\ trace[c + i].side # held[i].side
            /\ positions = <<>>
            /\ ~is_adjusted
            /\ trace[Len(trace)].ev = "save_state"
            /\ trace[Len(trace)].positions = <<>>
            /\ ~trace[Len(trace)].is_adjusted

\* C21 witness: an adjusted structure of five legs, three puts and the two
\* calls of the overlay, long and short legs of one and of two lots among
\* them, was exited with five orders.
C21_Witness ==
    /\ phase = "returned"
    /\ positions = <<>> /\ ~is_adjusted
    /\ \E c \in Idx :
          /\ CallAt(c, "exit_all_positions")
          /\ trace[c].is_adjusted
          /\ Len(trace[c].positions) = 5
          /\ Cardinality(OrdersAfter(c)) = 5
          /\ \E i, j \in 1..5 :
                /\ trace[c].positions[i].side = "BUY"
                /\ trace[c].positions[j].side = "SELL"
                /\ trace[c].positions[j].qty = 2 * ORDER_QUANTITY
                /\ trace[c + i].side = "SELL" /\ trace[c + j].side = "BUY"

\* The realized P&L of the i-th leg held when exit_all_positions was called
\* at c, at the price its exit order reports.
RealizedOfLeg(c, i) ==
    LET pos == trace[c].positions[i]
        exit_price == trace[c + i].avg_price[1]
    IN  IF pos.side = "BUY" THEN (exit_price - pos.entry_price) * pos.qty
        ELSE (pos.entry_price - exit_price) * pos.qty

RECURSIVE RealizedFrom(_, _)
RealizedFrom(c, i) ==
    IF i > Len(trace[c].positions) THEN 0
    ELSE RealizedOfLeg(c, i) + RealizedFrom(c, i + 1)

\* C22: after exit_all_positions of the iron-fly the trade log holds, for
\* every leg closed, a row for the leg's contract with its realized pnl
\* ((exit - entry) * qty if long, (entry - exit) * qty if short), and the
\* journal's running closed P&L has risen by the sum of these amounts.
C22_IronflyExitBooksRealizedPnl ==
    \A c \in Idx : CallAt(c, "exit_all_positions") =>
        /\ \A i \in 1..Len(trace[c].positions) :
              \E k \in Idx :
                 /\ k > c /\ LogAt(k)
                 /\ trace[k].instrument_key = trace[c].positions[i].instrument_key
                 /\ trace[k].pnl = Some(RealizedOfLeg(c, i))
        /\ ClosedPnlBefore(Len(trace) + 1) = ClosedPnlBefore(c) + RealizedFrom(c, 1)

\* The first save_state of the tick after the step c.
FirstSaveAfter(c) ==
    CHOOSE s \in Idx :
        /\ s > c /\ trace[s].ev = "save_state"
        /\ \A k \in Idx : (c < k /\ k < s) => trace[k].ev # "save_state"

\* The leg that the order at step k opens when it fills.
LegOpenedBy(k, n) ==
    [instrument_key |-> trace[k].instrument_key, qty |-> LegQtys[n], side |-> LegSides[n],
     tag |-> LegTags[n], strike |-> trace[k].instrument_key.strike]

\* What the claim compares of a held leg.
LegFacts(pos) ==
    [instrument_key |-> pos.instrument_key, qty |-> pos.qty, side |-> pos.side,
     tag |-> pos.tag, strike |-> pos.strike]

\* The legs opened by the orders at the steps in ks, in that order.
RECURSIVE LegsOpened(_, _)
LegsOpened(ks, n) ==
    IF n > Len(ks) THEN <<>>
    ELSE (IF trace[ks[n]].filled THEN << LegOpenedBy(ks[n], n) >> ELSE <<>>)
         \o LegsOpened(ks, n + 1)

\* C23: when all three strikes resolve, WeeklyIronfly.enter_strategy places
\* exactly three orders, in the order IF_LEG1 (BUY q), IF_LEG2 (SELL 2q),
\* IF_LEG3 (BUY q), each for the put at its target strike, whatever the
\* earlier ones answered; no other order is placed before the entry ends, and
\* the leg list the entry leaves (the one update persists right after it)
\* holds exactly the legs whose orders succeeded, in execution order.
C23_FailedLegNotFlattened ==
    \A c \in Idx : (CallAt(c, "enter_strategy") /\ AllLegsResolveAt(c)) =>
        LET s == FirstSaveAfter(c)
            ords == { k \in Idx : c < k /\ k < s /\ trace[k].ev = "order" }
        IN  \E k1, k2, k3 \in ords :
               /\ k1 < k2 /\ k2 < k3
               /\ ords = {k1, k2, k3}
               /\ \A n \in 1..3 :
                     LET k == <<k1, k2, k3>>[n]
                     IN  /\ trace[k].tag = LegTags[n]
                         /\ trace[k].side = LegSides[n]
                         /\ trace[k].qty = LegQtys[n]
                         /\ trace[k].instrument_key.strike = LegStrikes(trace[c].spot)[n]
                         /\ trace[k].instrument_key.type = "p"
               /\ LegQtys = << ORDER_QUANTITY, 2 * ORDER_QUANTITY, ORDER_QUANTITY >>
               /\ LegSides = << "BUY", "SELL", "BUY" >>
               /\ [n \in DOMAIN trace[s].positions |-> LegFacts(trace[s].positions[n])]
                     = LegsOpened(<<k1, k2, k3>>, 1)

\* C23 witness: leg 1 filled, leg 2 failed and leg 3 filled; no order
\* followed the third, and the tick ended holding legs 1 and 3 only.
C23_Witness ==
    /\ phase = "returned"
    /\ Len(positions) = 2
    /\ positions[1].tag = "IF_LEG1" /\ positions[2].tag = "IF_LEG3"
    /\ \E c, k1, k2, k3 \in Idx :
          /\ CallAt(c, "enter_strategy") /\ AllLegsResolveAt(c)
          /\ c < k1 /\ k1 < k2 /\ k2 < k3
          /\ FilledAt(k1, "IF_LEG1")
          /\ OrderAt(k2, "IF_LEG2") /\ ~trace[k2].filled
          /\ FilledAt(k3, "IF_LEG3")
          /\ OrdersAfter(c) = {k1, k2, k3}

\* The keys of the dict that the code stores in a slot.
LegFields ==
    {"leg", "strike", "expiry", "iv", "delta", "entry_spot", "instrument_key",
     "entry_price", "type", "expiry_dt"}

\* A slot is empty or holds a dict with every key of a leg, for that role.
EmptyOrPopulated(slot, role) ==
    slot = None \/ (DOMAIN slot[1] = LegFields /\ slot[1].leg = role)

\* C24: whatever the executor answers to the orders of a tick (success,
\* error status or no response object), CalendarPEWeekly.update returns
\* without raising, and on return each slot is empty or a fully populated
\* leg.
C24_TickCompletesOrAborts ==
    phase = "returned" =>
        /\ ~raised
        /\ EmptyOrPopulated(weekly_position, "weekly_sell")
        /\ EmptyOrPopulated(monthly_position, "monthly_buy")

\* The steps of a CalendarPEWeekly tick that change what a slot holds: an
\* assignment to a slot that held a leg or holds one afterwards.
SlotChanges == { k \in Idx : trace[k].ev = "assign" /\ (trace[k].was_held \/ trace[k].held) }

\* The steps of the tick that persist the state.
Saves == { k \in Idx : trace[k].ev = "save_state" }

\* The tick of CalendarPEWeekly.update changed slot occupancy or
\* last_rollover_date.
CalendarTickChangedState ==
    /\ trace # <<>> /\ trace[1].ev = "update" /\ "weekly" \in DOMAIN trace[1]
    /\ \/ SlotChanges # {}
       \/ last_rollover_date # trace[1].last_rollover_date

\* The tick of WeeklyIronfly.update changed the leg list or is_adjusted.
IronflyTickChangedState ==
    /\ trace # <<>> /\ trace[1].ev = "update" /\ "positions" \in DOMAIN trace[1]
    /\ \/ positions # trace[1].positions
       \/ is_adjusted # trace[1].is_adjusted
       \/ \E k \in Idx : trace[k].ev = "order"

\* The last save_state of the tick comes after every change of a slot and
\* hands over the state the tick ends in.
CalendarStatePersisted ==
    \E s \in Saves :
        /\ \A k \in Saves \cup SlotChanges : k <= s
        /\ trace[s].weekly = weekly_position
        /\ trace[s].monthly = monthly_position
        /\ trace[s].last_rollover_date = last_rollover_date

IronflyStatePersisted ==
    \E s \in Saves :
        /\ \A k \in Idx : (k \in Saves \/ trace[k].ev \in {"order", "log_trade"}) => k <= s
        /\ trace[s].positions = positions
        /\ trace[s].is_adjusted = is_adjusted

TickExpiry(chain) == IF chain # <<>> THEN chain[1].time_to_expiry ELSE 365

\* |delta| of a held leg at the spot and the chains of this tick.
FreshDelta(leg, chain) ==
    Abs(calculate_delta(leg.type, trace[1].spot, leg.strike, TickExpiry(chain), 15))

\* No assignment to the slot before the step c: the slot still holds the leg
\* the tick began with.
SlotUntouchedBefore(c, slot) ==
    \A k \in Idx : (k < c /\ trace[k].ev = "assign") => trace[k].slot # slot

\* C26: on a tick of CalendarPEWeekly.update with a spot price,
\* update_deltas runs with that spot before anything else and before every
\* call of check_adjustments, and a leg held since the start of the tick
\* enters check_adjustments with the |delta| computed from the tick's spot
\* and time to expiry; in every state the stored delta of a held leg is
\* non-negative.
C26_DeltasRefreshedBeforeTriggers ==
    /\ weekly_position # None => weekly_position[1].delta >= 0
    /\ monthly_position # None => monthly_position[1].delta >= 0
    /\ (trace # <<>> /\ trace[1].spot # NoSpot) =>
          /\ Len(trace) >= 2
          /\ trace[2].ev = "update_deltas" /\ trace[2].spot = trace[1].spot
          /\ \A c \in Idx : CallAt(c, "check_adjustments") =>
                /\ c > 2
                /\ (trace[1].weekly # None /\ SlotUntouchedBefore(c, "weekly")) =>
                      /\ trace[c].weekly # None
                      /\ trace[c].weekly[1].delta
                            = FreshDelta(trace[1].weekly[1], trace[1].cw_chain)
                /\ (trace[1].monthly # None /\ SlotUntouchedBefore(c, "monthly")) =>
                      /\ trace[c].monthly # None
                      /\ trace[c].monthly[1].delta
                            = FreshDelta(trace[1].monthly[1], trace[1].m_chain)

\* C26 witness: the spot moved since the last tick; the weekly leg, stored
\* with delta 0.50, entered check_adjustments with the refreshed delta 0.80,
\* the absolute value of the put's negative delta, and was rolled on it.
C26_Witness ==
    /\ phase = "returned"
    /\ trace[1].weekly # None /\ trace[1].monthly # None
    /\ trace[1].weekly[1].delta = 50
    /\ calculate_delta("p", trace[1].spot, trace[1].weekly[1].strike, 100, 15) = -80
    /\ \E c \in Idx :
          /\ CallAt(c, "check_adjustments")
          /\ SlotUntouchedBefore(c, "weekly")
          /\ trace[c].weekly[1].delta = 80
          /\ WeeklyRollAttemptedAfter(c)

\* The sum of the amounts, in a sequence of pnl arguments, that are not None.
RECURSIVE SumNonNull(_, _)
SumNonNull(pnls, i) ==
    IF i > Len(pnls) THEN 0
    ELSE (IF pnls[i] # None THEN pnls[i][1] ELSE 0) + SumNonNull(pnls, i + 1)

\* C27: after any sequence of log_trade calls, with the journal made anew
\* over the same file any number of times in between, the file holds one row
\* per call, in the order of the calls and each as it was written (the log
\* is append-only), and closed_pnl is the sum of the pnl of the rows whose
\* pnl is not null; a row with a null pnl adds nothing.
C27_ClosedPnlIsSumOfLog ==
    /\ Len(log_file) = Len(logged)
    /\ \A i \in DOMAIN log_file :
          log_file[i] = [timestamp |-> i, pnl |-> CsvCell(logged[i])]
    /\ journal # None => journal[1].closed_pnl = SumNonNull(logged, 1)

\* C27 witness: a journal made anew over a file of four rows, an opening
\* row first and closing rows after it, one of them with a pnl of zero,
\* whose closed P&L is not zero.
C27_Witness ==
    /\ journal # None
    /\ journal[1].from_file
    /\ Len(logged) = MaxLogLen
    /\ logged[1] = None
    /\ \E i, j \in 2..MaxLogLen : logged[i] = Some(0) /\ logged[j] = Some(-15000)
    /\ journal[1].closed_pnl # 0

\* The role that the legs of a slot carry.
RoleOfSlot(slot) == IF slot = "weekly" THEN "weekly_sell" ELSE "monthly_buy"

\* C28: in every reachable state of CalendarPEWeekly, within a tick as well
\* as between ticks, weekly_position and monthly_position are each None or a
\* dict with all of leg, strike, expiry, iv, delta, entry_spot,
\* instrument_key, entry_price, type and expiry_dt; the weekly slot holds
\* only a weekly_sell leg and the monthly slot only a monthly_buy leg.
C28_SlotAbsentOrFullyPopulated ==
    /\ EmptyOrPopulated(weekly_position, "weekly_sell")
    /\ EmptyOrPopulated(monthly_position, "monthly_buy")
    /\ \A k \in Idx : trace[k].ev = "assign" =>
          EmptyOrPopulated(trace[k].value, RoleOfSlot(trace[k].slot))

\* C28 witness: a tick in which both legs were rolled into replacements, so
\* that each slot was emptied and filled again and holds a leg on return.
C28_Witness ==
    /\ phase = "returned" /\ ~raised
    /\ weekly_position # None /\ monthly_position # None
    /\ \E i \in Idx : FilledAt(i, "WEEKLY_ROLL_ENTRY")
    /\ \E i \in Idx : FilledAt(i, "MONTHLY_ROLL_ENTRY")
    /\ \E k \in Idx : trace[k].ev = "assign" /\ trace[k].slot = "weekly" /\ trace[k].value = None
    /\ \E k \in Idx : trace[k].ev = "assign" /\ trace[k].slot = "monthly" /\ trace[k].value = None

\* The tags of the orders that open a leg: the two of the entry and the
\* replacement order of each roll.
OpeningTags == {"WEEKLY_ENTRY", "MONTHLY_ENTRY", "WEEKLY_ROLL_ENTRY", "MONTHLY_ROLL_ENTRY"}

\* The last traded price that the chain of the tick lists for a contract.
LtpOf(key) ==
    LET chain == IF key.chain = "W" THEN WeeklyChain(100) ELSE MonthlyChain(3000)
    IN  chain[CHOOSE n \in DOMAIN chain : chain[n].instrument_key = key].ltp

\* The price an opening order at i is to be recorded with: the avg_price it
\* reported, or the contract's last traded price when it reported none.
RecordedPrice(i) ==
    IF trace[i].avg_price # None THEN trace[i].avg_price[1]
    ELSE LtpOf(trace[i].instrument_key)

\* C29: for every entry or roll-entry order that reports success, the leg
\* stored for it carries as entry_price the reported avg_price, or the
\* selected contract's last traded price when the response has no avg_price,
\* and exactly one trade-log row is appended for it, with that price, a null
\* pnl and the running closed P&L left as it was.
C29_OpeningOrderRecorded ==
    \A i \in Idx : (trace[i].ev = "order" /\ trace[i].tag \in OpeningTags /\ trace[i].filled) =>
        /\ i + 2 \in Idx
        /\ trace[i + 1].ev = "assign"
        /\ trace[i + 1].slot = SlotOf(trace[i].instrument_key)
        /\ trace[i + 1].value # None
        /\ trace[i + 1].value[1].instrument_key = trace[i].instrument_key
        /\ trace[i + 1].value[1].entry_price = RecordedPrice(i)
        /\ { k \in Idx : LogAt(k) /\ trace[k].tag = trace[i].tag } = {i + 2}
        /\ trace[i + 2].instrument_key = trace[i].instrument_key
        /\ trace[i + 2].side = trace[i].side
        /\ trace[i + 2].price = RecordedPrice(i)
        /\ trace[i + 2].pnl = None
        /\ trace[i + 2].closed_pnl = ClosedPnlBefore(i + 2)

\* C29 witness: an entry whose weekly SELL filled without an avg_price, so
\* that the leg is held at the contract's last traded price, and whose
\* monthly BUY reported its fill price.
C29_Witness ==
    /\ phase = "returned" /\ ~raised
    /\ \E i \in Idx : FilledAt(i, "WEEKLY_ENTRY") /\ trace[i].avg_price = None
    /\ \E i \in Idx : FilledAt(i, "MONTHLY_ENTRY") /\ trace[i].avg_price = Some(300)
    /\ weekly_position # None /\ weekly_position[1].entry_price = 100
    /\ monthly_position # None /\ monthly_position[1].entry_price = 300

\* C30: for any interleaving of threads calling the Upstox wrapper, any two
\* consecutive outbound API calls, be they quote calls, funds calls or order
\* placements, are at least the mandatory inter-call delay apart.
C30_OutboundCallsSpaced ==
    outbound.count >= 2 => outbound.gap >= mandatory_delay

\* The base of the backoff before re-attempt number r, in half seconds: five
\* seconds, doubled with each retry.
DoublingBase(r) == 10 * (2 ^ (r - 1))

\* What holds of a thread in _safe_ltp_call or just out of it.
QuoteCallBounded(th) ==
    th.op = "quote" =>
        \* no more than max_retries + 1 attempts, each but the first after a retry
        /\ th.attempts <= max_retries + 1
        /\ th.pc \in {"acquire", "measure", "sleep", "stamp", "api", "backoff"} =>
              th.attempts = th.retries
        \* throttled max_retries + 1 times, the call raises
        /\ (th.last_outcome = "429" /\ th.attempts = max_retries + 1) =>
              th.pc = "idle" /\ th.result = "raised"
        \* a throttled attempt short of that is backed off, not returned
        /\ (th.last_outcome = "429" /\ th.attempts <= max_retries) => th.pc # "idle"
        \* a success returned is the answer to the latest attempt
        /\ (th.pc = "idle" /\ th.result = "ok") => th.last_outcome = "ok"
        /\ (th.pc = "idle" /\ th.last_outcome # "ok") => th.result = "raised"

\* A step of a thread in _safe_ltp_call into and out of the backoff: the
\* sleep asked for after the r-th throttled attempt is the doubled base and
\* no more than the jitter on top, and the thread goes on to its re-attempt
\* only when all of it has passed.
BackoffKept(t) ==
    /\ (threads[t].pc = "api" /\ threads'[t].pc = "backoff") =>
          /\ threads'[t].retries = threads[t].retries + 1
          /\ threads'[t].sleep >= DoublingBase(threads'[t].retries)
          /\ threads'[t].sleep <= DoublingBase(threads'[t].retries) + 4
    /\ (threads[t].pc = "backoff" /\ threads'[t].pc = "backoff") =>
          threads'[t].sleep \in {threads[t].sleep, threads[t].sleep - 1}
    /\ (threads[t].pc = "backoff" /\ threads'[t].pc # "backoff") =>
          threads[t].sleep = 0 /\ threads'[t].pc = "acquire"
    /\ (threads[t].op = "quote" /\ threads'[t].pc = "api" /\ threads[t].pc # "api"
          /\ threads[t].retries >= 1) => threads[t].pc = "stamp"

\* C31: under any sequence of 429 answers _safe_ltp_call makes at most
\* max_retries + 1 attempts, waits the doubling backoff (5, 10, 20, ...
\* seconds, plus jitter) before each re-attempt, raises to its caller when
\* the (max_retries + 1)-th attempt is throttled, returns a success only
\* when the latest attempt succeeded, and always comes to an end: the call
\* returns or raises, or the process exits.
C31_RetriesBoundedThenRaise ==
    /\ [](\A t \in Threads : QuoteCallBounded(threads[t]))
    /\ [][\A t \in Threads : BackoffKept(t)]_vars
    /\ \A t \in Threads :
          (threads[t].op = "quote" /\ threads[t].pc # "idle")
              ~> (threads[t].pc = "idle" \/ exited)

\* C31 witness: a quote call throttled six times over has raised.
C31_Witness ==
    /\ threads[1].op = "quote" /\ threads[1].pc = "idle"
    /\ threads[1].attempts = max_retries + 1
    /\ threads[1].last_outcome = "429"
    /\ threads[1].result = "raised"

\* The step is thread t's outbound call, a quote retrieval or an order
\* placement, and the API answers it 401 Unauthorized.
Gets401(t) ==
    /\ threads[t].pc = "api"
    /\ threads[t].op \in {"quote", "order"}
    /\ threads'[t].attempts = threads[t].attempts + 1
    /\ threads'[t].last_outcome = "401"

\* C32: whenever an outbound call of the wrapper, quote retrieval or order
\* placement, is answered 401 Unauthorized, the process terminates, and once
\* it has terminated no further call goes out.
C32_UnauthorizedIsFatal ==
    /\ [][\A t \in Threads : Gets401(t) => exited']_vars
    /\ [][exited => (exited' /\ outbound' = outbound)]_vars

\* C33: after any tick, whatever the orders answered, an empty calendar
\* slot means that the executor holds nothing for that role: no weekly short
\* is left open at the executor behind an empty weekly slot, and no monthly
\* long behind an empty monthly slot.
C33_EmptySlotMeansFlatBook ==
    (phase = "returned" /\ ~raised) =>
        /\ weekly_position = None => book.W = 0
        /\ monthly_position = None => book.M = 0

\* The MONDAY_CLOSE orders of the tick.
MondayCloses == { i \in Idx : OrderAt(i, "MONDAY_CLOSE") }

\* One tick of CalendarPEWeekly.update and the rollover: at most one
\* MONDAY_CLOSE, sent only on ROLLOVER_WEEKDAY, on a date that is not yet
\* the date of the last rollover, for the weekly leg held at the start of
\* the tick with no more than 1.5 days to expiry; last_rollover_date is the
\* tick's date after a close and what it was without one.
RolloverOncePerTick ==
    (trace # <<>> /\ trace[1].ev = "update" /\ "weekly" \in DOMAIN trace[1]) =>
        /\ Cardinality(MondayCloses) <= 1
        /\ \A i \in MondayCloses :
              /\ Weekday(trace[1].now.date) = ROLLOVER_WEEKDAY
              /\ trace[1].last_rollover_date # trace[1].now.date
              /\ trace[1].weekly # None
              /\ trace[i].instrument_key = trace[1].weekly[1].instrument_key
              /\ trace[i].side = "BUY"
              /\ TickExpiry(trace[1].cw_chain) * 2 <= 3 * 100
              /\ last_rollover_date = trace[1].now.date
        /\ MondayCloses = {} => last_rollover_date = trace[1].last_rollover_date

\* last_rollover_date changes only in a tick that sends a MONDAY_CLOSE, and
\* then to the date of that tick; the date never goes back.
RolloverDateKept ==
    /\ last_rollover_date' # last_rollover_date =>
          /\ phase = "idle" /\ phase' = "returned"
          /\ last_rollover_date' = now.date
          /\ \E i \in DOMAIN trace' : trace'[i].ev = "order" /\ trace'[i].tag = "MONDAY_CLOSE"
    /\ now'.date >= now.date

\* C34: across any number of ticks on one date at most one MONDAY_CLOSE
\* order is placed: it is placed only on ROLLOVER_WEEKDAY while a weekly leg
\* with time to expiry <= 1.5/365 is held and only when last_rollover_date
\* is not yet that date, and last_rollover_date is set to the date exactly
\* when the close is issued and kept until then.
C34_RolloverOncePerDate ==
    /\ []RolloverOncePerTick
    /\ [][RolloverDateKept]_vars

\* C34 witness: a later tick on the rollover date, after the close of that
\* date, that began with a weekly leg again held close to expiry and sent no
\* second MONDAY_CLOSE.
C34_Witness ==
    /\ phase = "returned" /\ ~raised
    /\ trace # <<>> /\ trace[1].ev = "update" /\ "weekly" \in DOMAIN trace[1]
    /\ Weekday(trace[1].now.date) = ROLLOVER_WEEKDAY
    /\ trace[1].last_rollover_date = trace[1].now.date
    /\ trace[1].weekly # None
    /\ trace[1].spot # NoSpot
    /\ TickExpiry(trace[1].cw_chain) * 2 <= 3 * 100
    /\ MondayCloses = {}

\* The tags of the iron-fly overlay orders.
OverlayTags == {"IF_ADJ_CE_SHORT", "IF_ADJ_CE_LONG"}

\* The tick read can_adjust from its snapshot at step k and found it false.
WindowClosedAt(k) ==
    trace[k].ev = "md" /\ trace[k].key = "can_adjust" /\ ~trace[k].val

\* C35: on a tick whose can_adjust flag is false no adjustment order is
\* placed: CalendarPEWeekly does not call check_adjustments and sends no
\* delta-roll exit or entry order once it has read the flag, WeeklyIronfly
\* sends no IF_ADJ_CE_SHORT or IF_ADJ_CE_LONG order, and is_adjusted is what
\* it was when the tick began.
C35_NoAdjustmentOutsideWindow ==
    \A k \in Idx : WindowClosedAt(k) =>
        /\ \A i \in Idx : ~CallAt(i, "check_adjustments")
        /\ \A i \in Idx : (i > k /\ trace[i].ev = "order") => trace[i].tag \notin RollTags
        /\ \A i \in Idx : trace[i].ev = "order" => trace[i].tag \notin OverlayTags
        /\ "is_adjusted" \in DOMAIN trace[1] => is_adjusted = trace[1].is_adjusted

\* The tick has fired the max-loss exit.
RiskExitFired == \E i \in Idx : OrderAt(i, "EXIT_MAX_LOSS")

\* The total P&L of the two legs at the prices the quote map gave for them.
QuotedPnl(weekly, monthly, w_price, m_price) ==
    (weekly.entry_price - w_price) * ORDER_QUANTITY
        + (m_price - monthly.entry_price) * ORDER_QUANTITY

\* C36: on a tick where the quote map has no entry for a held leg, the
\* max-loss exit of CalendarPEWeekly.update does not fire; it fires only
\* when both legs are quoted and their quoted prices give a total P&L at or
\* below -MAX_LOSS_VALUE.
C36_MissingQuoteNoRiskExit ==
    RiskExitFired =>
        /\ \A k \in Idx : trace[k].ev = "quote" => trace[k].quote # None
        /\ \E c \in Idx :
              /\ CallAt(c, "check_portfolio_risk")
              /\ \E kw \in Idx : \E km \in Idx :
                    /\ trace[kw].ev = "quote" /\ trace[kw].role = "weekly"
                    /\ trace[km].ev = "quote" /\ trace[km].role = "monthly"
                    /\ trace[kw].quote # None /\ trace[km].quote # None
                    /\ QuotedPnl(trace[c].weekly[1], trace[c].monthly[1],
                                 trace[kw].quote[1], trace[km].quote[1]) <= -Abs(max_loss_value)

\* The leg list holds a leg of the tag.
HoldsLeg(tag) == \E n \in DOMAIN positions : positions[n].tag = tag

\* C37: whatever its two orders answer, apply_adjustment leaves the leg list
\* with both overlay legs, IF_ADJ_CE_SHORT and IF_ADJ_CE_LONG, or with
\* neither: the structure never holds only one call of the overlay.
C37_OverlayAllOrNothing ==
    HoldsLeg("IF_ADJ_CE_SHORT") <=> HoldsLeg("IF_ADJ_CE_LONG")

\* The tick is one of WeeklyIronfly.update that began, with a spot price,
\* holding legs at or after IRONFLY_EXIT_TIME.
HeldAtExitTime ==
    /\ phase = "returned"
    /\ trace # <<>> /\ trace[1].ev = "update" /\ "positions" \in DOMAIN trace[1]
    /\ trace[1].positions # <<>>
    /\ trace[1].spot # NoSpot
    /\ trace[1].now.minute >= IRONFLY_EXIT_TIME

\* The steps at which the tick read is_expiry_today from its snapshot.
ExpiryFlagReads == { k \in Idx : trace[k].ev = "md" /\ trace[k].key = "is_expiry_today" }

\* C38: on a tick where the leg list is non-empty and the time is at or
\* after IRONFLY_EXIT_TIME, WeeklyIronfly.update goes by is_expiry_today:
\* it reads the flag and, when the flag is set, sends one EXPIRY_TIME_EXIT
\* order for every held leg and empties the list in that tick, also when the
\* list is a partial structure left by a failed entry leg.
C38_ExpiryExitOfEveryStructure ==
    HeldAtExitTime =>
        /\ ExpiryFlagReads # {}
        /\ \A k \in ExpiryFlagReads : trace[k].val =>
              /\ positions = <<>>
              /\ CountOrders(trace, IronflyExitTag("EXPIRY_TIME_EXIT")) = Len(trace[1].positions)

\* exit_all_positions(reason="PRE_MONTHLY_EXPIRY_T1") was called at step k.
T1ExitAt(k) == CallAt(k, "exit_all_positions") /\ trace[k].reason = "PRE_MONTHLY_EXPIRY_T1"

\* The tick is one of CalendarPEWeekly.update.
CalendarTick ==
    /\ phase = "returned"
    /\ trace # <<>> /\ trace[1].ev = "update" /\ "weekly" \in DOMAIN trace[1]

\* After the T-1 exit the tick sends its exit orders and nothing else.
NoOrderAfterT1Exit ==
    \A k \in Idx : T1ExitAt(k) =>
        \A i \in Idx : (i > k /\ trace[i].ev = "order") =>
            trace[i].tag = ExitTag("PRE_MONTHLY_EXPIRY_T1")

\* The tick sent an order of enter_strategy, and its snapshot did not carry
\* is_day_before_monthly_expiry unset.
EntryOrderUnderFlag ==
    /\ \E i \in Idx : OrderAt(i, "WEEKLY_ENTRY") \/ OrderAt(i, "MONTHLY_ENTRY")
    /\ \A k \in Idx : (trace[k].ev = "md" /\ trace[k].key = "is_day_before_monthly_expiry")
                          => trace[k].val

\* C39: once a tick of CalendarPEWeekly.update has performed the
\* PRE_MONTHLY_EXPIRY_T1 exit, it sends no order but the exit's own in the
\* rest of that tick, and no later tick of the same day whose snapshot has
\* is_day_before_monthly_expiry set sends an entry order.
C39_StoppedAfterT1Exit ==
    /\ NoOrderAfterT1Exit
    /\ (CalendarTick /\ stopped_on = trace[1].now.date) => ~EntryOrderUnderFlag

\* The tags of the three legs of the put butterfly.
ButterflyTags == {"IF_LEG1", "IF_LEG2", "IF_LEG3"}

\* The tick is one of WeeklyIronfly.update that sent a butterfly entry order.
ButterflyOrderSent ==
    /\ trace # <<>> /\ trace[1].ev = "update" /\ "positions" \in DOMAIN trace[1]
    /\ \E i \in Idx : trace[i].ev = "order" /\ trace[i].tag \in ButterflyTags

\* C40: in every state reached from an empty iron-fly structure the leg
\* list holds at most 5 legs, each tagged IF_LEG1, IF_LEG2, IF_LEG3,
\* IF_ADJ_CE_SHORT or IF_ADJ_CE_LONG and no two with the same tag; a tick
\* sends butterfly entry orders only if it began with an empty list; and
\* is_adjusted is true only while the list is non-empty.
C40_LegListBoundedAndConsistent ==
    /\ Len(positions) <= 5
    /\ \A i \in DOMAIN positions : positions[i].tag \in ButterflyTags \cup OverlayTags
    /\ \A i, j \in DOMAIN positions : positions[i].tag = positions[j].tag => i = j
    /\ ButterflyOrderSent => trace[1].positions = <<>>
    /\ is_adjusted => positions # <<>>

\* A structure of all five legs, marked adjusted, is held after a tick that
\* sent the overlay orders.
C40_Witness ==
    /\ phase = "returned"
    /\ Len(positions) = 5
    /\ is_adjusted
    /\ \E i \in Idx : trace[i].ev = "order" /\ trace[i].tag \in OverlayTags

====
